---------------------------- MODULE Spec2Model ----------------------------
(***************************************************************************)
(* DS/AHP-GDM: the evidence-combination engine (src/combination_rules.py), *)
(* the experts' manager (src/expert_manager.py), the Belief/Plausibility   *)
(* calculator (src/belief_plausibility.py) and the analysis that runs them *)
(* (src/gdm_analyzer.py).                                                  *)
(*                                                                         *)
(* A body of evidence (BOE/BPA) is a Python dict {frozenset: float}; here  *)
(* it is a function from focal elements (subsets of the alternatives) to   *)
(* masses.  Masses are exact rationals <<n, d>> in lowest terms (d > 0),   *)
(* so floating-point rounding is abstracted away while every comparison    *)
(* the code makes (K >= 1 - 1e-10, v > 1e-10, K < threshold) is kept.      *)
(* A Python dict whose order matters (experts, CPVs, preferences) is a     *)
(* sequence of <<key, value>> items in insertion order.                    *)
(***************************************************************************)
EXTENDS Integers, Sequences, FiniteSets, TLC

(***************************************************************************)
(* Bounds of the model.                                                    *)
(***************************************************************************)
\* every input mass is a positive multiple of 1/MassDen
MassDen == 2
\* a multi-source call gets at most MaxSources BOEs
MaxSources == 3
\* a session makes at most MaxCalls calls on one CombinationRules object
MaxCalls == 2
\* an analysis has at most MaxExperts experts
MaxExperts == 2

(***************************************************************************)
(* Exact rational arithmetic on <<numerator, denominator>>.                *)
(***************************************************************************)
RECURSIVE GCD(_, _)
GCD(a, b) == IF b = 0 THEN a ELSE IF b = 1 THEN 1 ELSE GCD(b, a % b)

Norm(n, d) ==
    IF d = 1 THEN <<n, 1>> ELSE LET g == GCD(n, d) IN <<n \div g, d \div g>>

RZero == <<0, 1>>
ROne == <<1, 1>>
\* Common factors are divided out before the products are taken, which keeps
\* the intermediate integers small; the values are those of the usual formulas.
RAdd(x, y) ==
    IF x[1] = 0 THEN y ELSE IF y[1] = 0 THEN x ELSE
    LET g == GCD(x[2], y[2])
    IN Norm(x[1] * (y[2] \div g) + y[1] * (x[2] \div g), (x[2] \div g) * y[2])
RSub(x, y) ==
    IF y[1] = 0 THEN x ELSE
    LET g == GCD(x[2], y[2])
    IN Norm(x[1] * (y[2] \div g) - y[1] * (x[2] \div g), (x[2] \div g) * y[2])
\* The operands are in lowest terms, so the product is once the common
\* factors of each numerator and the other denominator are divided out.
RMul(x, y) ==
    IF x[1] = 0 \/ y[1] = 0 THEN RZero
    ELSE IF x[2] = 1 /\ y[2] = 1 THEN <<x[1] * y[1], 1>>
    ELSE LET g1 == GCD(x[1], y[2])
             g2 == GCD(y[1], x[2])
         IN <<(x[1] \div g1) * (y[1] \div g2), (x[2] \div g2) * (y[2] \div g1)>>
\* <<1, 0>> stands for the quotient of a non-zero number by zero
RDiv(x, y) ==
    IF y[1] = 0 THEN (IF x[1] = 0 THEN RZero ELSE <<1, 0>>)
    ELSE RMul(x, <<y[2], y[1]>>)
RLt(x, y) ==
    IF x[2] = y[2] THEN x[1] < y[1]
    ELSE LET g == GCD(x[2], y[2]) IN x[1] * (y[2] \div g) < y[1] * (x[2] \div g)
RLe(x, y) ==
    IF x[2] = y[2] THEN x[1] <= y[1]
    ELSE LET g == GCD(x[2], y[2]) IN x[1] * (y[2] \div g) <= y[1] * (x[2] \div g)

\* 1e-10 is 1 / (TenPow5 * TenPow5); for integers n, d > 0:
\*   n/d >  1e-10  <=>  n >  floor(floor(d / 1e5) / 1e5)
\*   n/d <= 1e-10  <=>  n <= floor(floor(d / 1e5) / 1e5)
TenPow5 == 100000
GtEps(x) == x[1] > (x[2] \div TenPow5) \div TenPow5
LeEps(x) == x[1] <= (x[2] \div TenPow5) \div TenPow5
\* for n >= 0: n/d < 1e-10  <=>  n <= floor(floor((d - 1) / 1e5) / 1e5)
LtEps(x) == x[1] <= ((x[2] - 1) \div TenPow5) \div TenPow5

(***************************************************************************)
(* The universe and the bodies of evidence.                                *)
(***************************************************************************)
all_alternatives == {"A", "B"}
universal_set == all_alternatives
FocalElements == (SUBSET all_alternatives) \ {{}}

\* sum of the masses of a dict, sum(bpa.values())
RECURSIVE SumOver(_, _)
SumOver(bpa, S) ==
    IF S = {} THEN RZero
    ELSE LET s == CHOOSE s \in S : TRUE
         IN RAdd(bpa[s], SumOver(bpa, S \ {s}))

TotalMass(bpa) == SumOver(bpa, DOMAIN bpa)

\* mass a dict gives to a set: its entry, 0.0 when the set is no key
MassOf(bpa, A) == IF A \in DOMAIN bpa THEN bpa[A] ELSE RZero

\* {Θ: 1.0}
TotalIgnorance == [f \in {universal_set} |-> ROne]


RECURSIVE SumInts(_, _)
SumInts(f, S) ==
    IF S = {} THEN 0
    ELSE LET s == CHOOSE s \in S : TRUE IN f[s] + SumInts(f, S \ {s})

\* the valid input BOEs on the mass grid: non-empty focal elements, positive
\* masses k/MassDen that sum to 1
GridBOEs ==
    UNION { { [f \in D |-> Norm(n[f], MassDen)] :
                n \in { m \in [D -> 1..MassDen] : SumInts(m, D) = MassDen } } :
            D \in { D \in SUBSET FocalElements : D # {} /\ Cardinality(D) <= MassDen } }

\* the two BOEs of the worked example: m1 = {{A}: 0.6, Θ: 0.4}, m2 = {{B}: 0.5, Θ: 0.5}
m1Example == ({"A"} :> <<3, 5>>) @@ (universal_set :> <<2, 5>>)
m2Example == ({"B"} :> <<1, 2>>) @@ (universal_set :> <<1, 2>>)

ValidBOEs == GridBOEs

(***************************************************************************)
(* CombinationRules.  An object is the record                              *)
(*   [conflict_threshold, conflict_history, step_decisions];               *)
(* a method is an operator from the object and the arguments to            *)
(*   [self |-> the object after the call, ret |-> the returned value].     *)
(***************************************************************************)

\* __init__: conflict_threshold None selects Config.DEFAULT_CONFLICT_THRESHOLD
DEFAULT_CONFLICT_THRESHOLD == <<2, 5>>
MIN_CONFLICT_THRESHOLD == RZero
MAX_CONFLICT_THRESHOLD == ROne

\* Python's None, and the empty dict {} (the function with no key)
None == <<>>
EmptyDict == <<>>
\* None where the value is otherwise a string
NoneName == "None"
\* `x is None` for an object, `not x` for a dict
IsNone(x) == DOMAIN x = {}

CombinationRules(conflict_threshold_arg) ==
    [conflict_threshold |-> IF conflict_threshold_arg = None
                            THEN DEFAULT_CONFLICT_THRESHOLD
                            ELSE conflict_threshold_arg,
     conflict_history   |-> <<>>,
     step_decisions     |-> <<>>]

\* the (s1, s2) pairs the nested loops visit
Pairs(bpa1, bpa2) == (DOMAIN bpa1) \X (DOMAIN bpa2)

RECURSIVE SumProducts(_, _, _)
SumProducts(bpa1, bpa2, P) ==
    IF P = {} THEN RZero
    ELSE LET p == CHOOSE p \in P : TRUE
         IN RAdd(RMul(bpa1[p[1]], bpa2[p[2]]), SumProducts(bpa1, bpa2, P \ {p}))

\* calculate_conflict: K = sum of m1(B) * m2(C) over the pairs with B ∩ C = ∅
calculate_conflict(bpa1, bpa2) ==
    SumProducts(bpa1, bpa2,
                { p \in Pairs(bpa1, bpa2) : Cardinality(p[1] \cap p[2]) = 0 })

\* Mutant of Accumulate: the products of disjoint focal elements are
\* accumulated too, under the empty intersection.
AccumulateWithEmpty(bpa1, bpa2) ==
    LET P    == Pairs(bpa1, bpa2)
        keys == { p[1] \cap p[2] : p \in P }
    IN [intersections |->
            [k \in keys |-> SumProducts(bpa1, bpa2, { p \in P : p[1] \cap p[2] = k })],
        conflict |->
            SumProducts(bpa1, bpa2, { p \in P : Cardinality(p[1] \cap p[2]) = 0 })]

\* Mutant of Accumulate: the product is accumulated under s1, not under s1 ∩ s2.
AccumulateLeft(bpa1, bpa2) ==
    LET P    == Pairs(bpa1, bpa2)
        keys == { p[1] : p \in { q \in P : Cardinality(q[1] \cap q[2]) # 0 } }
    IN [intersections |->
            [k \in keys |-> SumProducts(bpa1, bpa2,
                               { p \in P : p[1] = k /\ Cardinality(p[1] \cap p[2]) # 0 })],
        conflict |->
            SumProducts(bpa1, bpa2, { p \in P : Cardinality(p[1] \cap p[2]) = 0 })]

\* the accumulation loop shared by dempster_combine and yager_combine:
\* a defaultdict keyed by the non-empty intersections, and the conflict
Accumulate(bpa1, bpa2) ==
    LET P    == Pairs(bpa1, bpa2)
        keys == { p[1] \cap p[2] : p \in { q \in P : Cardinality(q[1] \cap q[2]) # 0 } }
    IN [intersections |->
            [k \in keys |-> SumProducts(bpa1, bpa2, { p \in P : p[1] \cap p[2] = k })],
        conflict |->
            SumProducts(bpa1, bpa2, { p \in P : Cardinality(p[1] \cap p[2]) = 0 })]

\* Mutant of FullConflict: the test is K > 1.0, which full conflict never meets.
FullConflictAboveOne(K) == RLt(ROne, K)

\* K >= 1.0 - 1e-10
FullConflict(K) == LeEps(RSub(ROne, K))

\* Mutant of dempster_combine: the division by 1 - K is left out.
dempster_combine_unnormalized(self, bpa1, bpa2) ==
    LET acc == Accumulate(bpa1, bpa2)
        K   == acc.conflict
    IN IF FullConflict(K)
       THEN [self |-> self, ret |-> TotalIgnorance]
       ELSE [self |-> [self EXCEPT !.conflict_history = Append(@, K)],
             ret  |-> acc.intersections]

dempster_combine(self, bpa1, bpa2) ==
    LET acc == Accumulate(bpa1, bpa2)
        K   == acc.conflict
    IN IF FullConflict(K)
       THEN [self |-> self, ret |-> TotalIgnorance]
       ELSE LET normalization_factor == RSub(ROne, K)
            IN [self |-> [self EXCEPT !.conflict_history = Append(@, K)],
                ret  |-> [focal \in DOMAIN acc.intersections |->
                             RDiv(acc.intersections[focal], normalization_factor)]]

\* Mutant of yager_combine: combined[Θ] = conflict, which overwrites the mass
\* accumulated on Θ.
yager_combine_overwrites_theta(self, bpa1, bpa2) ==
    LET acc      == Accumulate(bpa1, bpa2)
        conflict == acc.conflict
        combined == [k \in (DOMAIN acc.intersections) \cup {universal_set, {}} |->
                        IF k = universal_set THEN conflict
                        ELSE IF k = {} THEN RZero
                        ELSE acc.intersections[k]]
        kept     == { k \in DOMAIN combined : GtEps(combined[k]) \/ k = universal_set }
    IN [self |-> [self EXCEPT !.conflict_history = Append(@, conflict)],
        ret  |-> [k \in kept |-> combined[k]]]

\* Mutant of yager_combine: the conflict is not transferred to Θ.
yager_combine_drops_conflict(self, bpa1, bpa2) ==
    LET acc      == Accumulate(bpa1, bpa2)
        conflict == acc.conflict
        combined == [k \in (DOMAIN acc.intersections) \cup {universal_set, {}} |->
                        IF k = universal_set
                        THEN MassOf(acc.intersections, universal_set)
                        ELSE IF k = {} THEN RZero
                        ELSE acc.intersections[k]]
        kept     == { k \in DOMAIN combined : GtEps(combined[k]) \/ k = universal_set }
    IN [self |-> [self EXCEPT !.conflict_history = Append(@, conflict)],
        ret  |-> [k \in kept |-> combined[k]]]

yager_combine(self, bpa1, bpa2) ==
    LET acc      == Accumulate(bpa1, bpa2)
        conflict == acc.conflict
        \* combined[Θ] = combined.get(Θ, 0.0) + conflict; combined[frozenset()] = 0.0
        combined == [k \in (DOMAIN acc.intersections) \cup {universal_set, {}} |->
                        IF k = universal_set
                        THEN RAdd(MassOf(acc.intersections, universal_set), conflict)
                        ELSE IF k = {} THEN RZero
                        ELSE acc.intersections[k]]
        kept     == { k \in DOMAIN combined : GtEps(combined[k]) \/ k = universal_set }
    IN [self |-> [self EXCEPT !.conflict_history = Append(@, conflict)],
        ret  |-> [k \in kept |-> combined[k]]]

\* Mutant of adaptive_combine: the test is conflict <= threshold.
adaptive_combine_le(self, bpa1, bpa2) ==
    LET conflict == calculate_conflict(bpa1, bpa2)
        dempster == RLe(conflict, self.conflict_threshold)
        r        == IF dempster THEN dempster_combine(self, bpa1, bpa2)
                                ELSE yager_combine(self, bpa1, bpa2)
        decision == [step      |-> Len(r.self.step_decisions) + 1,
                     conflict  |-> conflict,
                     threshold |-> self.conflict_threshold,
                     used_rule |-> IF dempster THEN "Dempster" ELSE "Yager",
                     decision_logic |-> IF RLt(conflict, self.conflict_threshold)
                                        THEN "<" ELSE ">="]
    IN [self |-> [r.self EXCEPT !.step_decisions = Append(@, decision),
                                !.conflict_history = Append(@, conflict)],
        ret  |-> r.ret]

\* Mutant of adaptive_combine: Dempster's rule is taken whatever the conflict.
adaptive_combine_always_dempster(self, bpa1, bpa2) ==
    LET conflict == calculate_conflict(bpa1, bpa2)
        r        == dempster_combine(self, bpa1, bpa2)
        decision == [step      |-> Len(r.self.step_decisions) + 1,
                     conflict  |-> conflict,
                     threshold |-> self.conflict_threshold,
                     used_rule |-> "Dempster",
                     decision_logic |-> IF RLt(conflict, self.conflict_threshold)
                                        THEN "<" ELSE ">="]
    IN [self |-> [r.self EXCEPT !.step_decisions = Append(@, decision),
                                !.conflict_history = Append(@, conflict)],
        ret  |-> r.ret]

adaptive_combine(self, bpa1, bpa2) ==
    LET conflict == calculate_conflict(bpa1, bpa2)
        dempster == RLt(conflict, self.conflict_threshold)
        r        == IF dempster THEN dempster_combine(self, bpa1, bpa2)
                                ELSE yager_combine(self, bpa1, bpa2)
        decision == [step      |-> Len(r.self.step_decisions) + 1,
                     conflict  |-> conflict,
                     threshold |-> self.conflict_threshold,
                     used_rule |-> IF dempster THEN "Dempster" ELSE "Yager",
                     decision_logic |-> IF RLt(conflict, self.conflict_threshold)
                                        THEN "<" ELSE ">="]
    IN [self |-> [r.self EXCEPT !.step_decisions = Append(@, decision),
                                !.conflict_history = Append(@, conflict)],
        ret  |-> r.ret]

RECURSIVE DempsterFold(_, _, _, _)
DempsterFold(self, result, bpas_arg, i) ==
    IF i > Len(bpas_arg) THEN [self |-> self, ret |-> result]
    ELSE LET r == dempster_combine(self, result, bpas_arg[i])
         IN DempsterFold(r.self, r.ret, bpas_arg, i + 1)

\* Mutant of dempster_combine_multiple: the loop runs over bpas[:-1] instead
\* of bpas[1:], so the first source is combined twice and the last never.
dempster_combine_multiple_slices_front(self, bpas_arg) ==
    IF Len(bpas_arg) = 0 THEN [self |-> self, ret |-> EmptyDict]
    ELSE IF Len(bpas_arg) = 1 THEN [self |-> self, ret |-> bpas_arg[1]]
    ELSE DempsterFold(self, bpas_arg[1],
                      <<bpas_arg[1]>> \o SubSeq(bpas_arg, 1, Len(bpas_arg) - 1), 2)

\* Mutant of dempster_combine_multiple: no source is taken for total ignorance.
dempster_combine_multiple_empty_is_ignorance(self, bpas_arg) ==
    IF Len(bpas_arg) = 0 THEN [self |-> self, ret |-> TotalIgnorance]
    ELSE IF Len(bpas_arg) = 1 THEN [self |-> self, ret |-> bpas_arg[1]]
    ELSE DempsterFold(self, bpas_arg[1], bpas_arg, 2)

dempster_combine_multiple(self, bpas_arg) ==
    IF Len(bpas_arg) = 0 THEN [self |-> self, ret |-> EmptyDict]
    ELSE IF Len(bpas_arg) = 1 THEN [self |-> self, ret |-> bpas_arg[1]]
    ELSE DempsterFold(self, bpas_arg[1], bpas_arg, 2)

RECURSIVE YagerFold(_, _, _, _)
YagerFold(self, result, bpas_arg, i) ==
    IF i > Len(bpas_arg) THEN [self |-> self, ret |-> result]
    ELSE LET r == yager_combine(self, result, bpas_arg[i])
         IN YagerFold(r.self, r.ret, bpas_arg, i + 1)

\* Mutant of yager_combine_multiple: the sources are folded from the right,
\* b1 with (b2 with (... with bN)).
RECURSIVE YagerFoldRight(_, _, _)
YagerFoldRight(self, bpas_arg, i) ==
    IF i >= Len(bpas_arg) THEN [self |-> self, ret |-> bpas_arg[i]]
    ELSE LET r == YagerFoldRight(self, bpas_arg, i + 1)
         IN yager_combine(r.self, bpas_arg[i], r.ret)

yager_combine_multiple_right_fold(self, bpas_arg) ==
    IF Len(bpas_arg) = 0 THEN [self |-> self, ret |-> EmptyDict]
    ELSE IF Len(bpas_arg) = 1 THEN [self |-> self, ret |-> bpas_arg[1]]
    ELSE YagerFoldRight(self, bpas_arg, 1)

yager_combine_multiple(self, bpas_arg) ==
    IF Len(bpas_arg) = 0 THEN [self |-> self, ret |-> EmptyDict]
    ELSE IF Len(bpas_arg) = 1 THEN [self |-> self, ret |-> bpas_arg[1]]
    ELSE YagerFold(self, bpas_arg[1], bpas_arg, 2)

RECURSIVE AdaptiveFold(_, _, _, _)
AdaptiveFold(self, result, bpas_arg, i) ==
    IF i > Len(bpas_arg) THEN [self |-> self, ret |-> result]
    ELSE LET r == adaptive_combine(self, result, bpas_arg[i])
         IN AdaptiveFold(r.self, r.ret, bpas_arg, i + 1)

\* Mutant of adaptive_combine_multiple: step_decisions is not reset.
adaptive_combine_multiple_no_reset(self, bpas_arg) ==
    IF Len(bpas_arg) = 0 THEN [self |-> self, ret |-> EmptyDict]
    ELSE IF Len(bpas_arg) = 1 THEN [self |-> self, ret |-> bpas_arg[1]]
    ELSE AdaptiveFold(self, bpas_arg[1], bpas_arg, 2)

adaptive_combine_multiple(self, bpas_arg) ==
    IF Len(bpas_arg) = 0 THEN [self |-> self, ret |-> EmptyDict]
    ELSE IF Len(bpas_arg) = 1 THEN [self |-> self, ret |-> bpas_arg[1]]
    ELSE \* self.step_decisions = [] before the fold
         AdaptiveFold([self EXCEPT !.step_decisions = <<>>], bpas_arg[1], bpas_arg, 2)

\* set_conflict_threshold: accepted only within [MIN, MAX]
set_conflict_threshold(self, threshold) ==
    IF RLe(MIN_CONFLICT_THRESHOLD, threshold) /\ RLe(threshold, MAX_CONFLICT_THRESHOLD)
    THEN [self |-> [self EXCEPT !.conflict_threshold = threshold], ret |-> TRUE]
    ELSE [self |-> self, ret |-> FALSE]

(***************************************************************************)
(* Python dicts keep their insertion order: a dict whose order the code    *)
(* reads (experts, expert_weights, the BOEs per expert) is the sequence of *)
(* its <<key, value>> items.                                               *)
(***************************************************************************)
DictKeys(d) == [i \in 1..Len(d) |-> d[i][1]]
DictValues(d) == [i \in 1..Len(d) |-> d[i][2]]
DictHas(d, k) == \E i \in 1..Len(d) : d[i][1] = k
DictGet(d, k) == d[CHOOSE i \in 1..Len(d) : d[i][1] = k][2]
\* d[k] = v: a new key goes last, a known key keeps its place
DictPut(d, k, v) ==
    IF DictHas(d, k)
    THEN [i \in 1..Len(d) |-> IF d[i][1] = k THEN <<k, v>> ELSE d[i]]
    ELSE Append(d, <<k, v>>)

Range(seq) == { seq[i] : i \in 1..Len(seq) }

RECURSIVE SumSeq(_, _)
SumSeq(seq, i) == IF i > Len(seq) THEN RZero ELSE RAdd(seq[i], SumSeq(seq, i + 1))

RAbs(x) == IF x[1] < 0 THEN <<0 - x[1], x[2]>> ELSE x

(***************************************************************************)
(* ExpertManager (src/expert_manager.py).  The object is the record of its *)
(* fields; a method is an operator to [self |-> ..., ret |-> ...].         *)
(***************************************************************************)
\* the alternatives and the criteria of the decision problem, in input order
alternatives == <<"A", "B">>
criteria == <<"c1", "c2">>

ExpertManager ==
    [experts         |-> EmptyDict,
     expert_weights  |-> EmptyDict,
     discount_rates  |-> EmptyDict,
     criterion_boes  |-> EmptyDict,
     individual_boes |-> EmptyDict,
     adjusted_boes   |-> EmptyDict,
     group_boe       |-> None]

\* str.strip() on the strings of the model: blanks around a name are removed
strip(s) == IF s = " " THEN "" ELSE IF s = " A" THEN "A" ELSE s

\* A group string "A,B" is the sequence of its comma-separated parts;
\* parse_gdm_group_string returns the list of the stripped, non-empty parts.
parse_gdm_group_string(group_str) ==
    SelectSeq([i \in 1..Len(group_str) |-> strip(group_str[i])], LAMBDA part : part # "")

\* Utils.validate_cpvs: every criterion has a CPV, every CPV is in [0, 1],
\* and the CPVs sum to at most 1.0 + 1e-5
validate_cpvs(cpvs, criteria_arg) ==
    /\ Len(cpvs) > 0
    /\ \A i \in 1..Len(criteria_arg) : DictHas(cpvs, criteria_arg[i])
    /\ \A i \in 1..Len(cpvs) : RLe(RZero, cpvs[i][2]) /\ RLe(cpvs[i][2], ROne)
    /\ ~RLt(<<100001, 100000>>, SumSeq(DictValues(cpvs), 1))

RECURSIVE Concat(_, _)
Concat(seqs, i) == IF i > Len(seqs) THEN <<>> ELSE seqs[i] \o Concat(seqs, i + 1)

\* [alt.strip() for alt in group_str.split(',')] of every group, concatenated
StrippedParts(groups) ==
    LET parts == Concat(DictKeys(groups), 1)
    IN [i \in 1..Len(parts) |-> strip(parts[i])]

\* Mutant of validate_preferences: only the ranks are checked, not whether
\* the groups name every alternative exactly once.
validate_preferences_ranks_only(preferences, alternatives_arg) ==
    \A c \in 1..Len(preferences) :
        LET preference_values == DictValues(preferences[c][2])
        IN /\ \A i \in 1..Len(preference_values) : preference_values[i] > 0
           /\ Cardinality(Range(preference_values)) = Len(preference_values)

\* Utils.validate_preferences: in every criterion the groups name every
\* alternative exactly once, and the ranks are positive and pairwise different
validate_preferences(preferences, alternatives_arg) ==
    /\ \A c \in 1..Len(preferences) :
          LET groups == preferences[c][2]
              all_alts_in_criterion == StrippedParts(groups)
              preference_values == DictValues(groups)
          IN /\ Len(all_alts_in_criterion) = Len(alternatives_arg)
             /\ Cardinality(Range(all_alts_in_criterion)) = Len(alternatives_arg)
             /\ Range(alternatives_arg) \ Range(all_alts_in_criterion) = {}
             /\ \A i \in 1..Len(preference_values) : preference_values[i] > 0
             /\ Cardinality(Range(preference_values)) = Len(preference_values)
    /\ \A c \in 1..Len(preferences) :
          LET group_alts == Concat([g \in 1..Len(preferences[c][2]) |->
                                     parse_gdm_group_string(preferences[c][2][g][1])], 1)
          IN Cardinality(Range(group_alts)) = Len(group_alts)

validate_expert_data(self, name, weight, cpvs, preferences) ==
    /\ ~(name = "" \/ strip(name) = "")
    /\ ~(RLt(weight, RZero) \/ RLt(ROne, weight))
    /\ validate_cpvs(cpvs, criteria)
    /\ validate_preferences(preferences, alternatives)

add_expert(self, name, weight, cpvs, preferences) ==
    IF ~validate_expert_data(self, name, weight, cpvs, preferences)
    THEN [self |-> self, ret |-> FALSE]
    ELSE [self |-> [self EXCEPT
                       !.experts = DictPut(@, name, [weight |-> weight, cpvs |-> cpvs,
                                                     preferences |-> preferences]),
                       !.expert_weights = DictPut(@, name, weight)],
          ret  |-> TRUE]

RECURSIVE MaxOf(_, _)
MaxOf(seq, i) ==
    IF i = Len(seq) THEN seq[i]
    ELSE LET m == MaxOf(seq, i + 1) IN IF RLt(seq[i], m) THEN m ELSE seq[i]

\* Mutant of calculate_discount_rates: a zero maximum is replaced by 1.0
\* (max_weight = max(...) or 1.0), so every expert gets the rate 0.
calculate_discount_rates_zero_max(self) ==
    IF Len(self.expert_weights) = 0 THEN [self |-> self, ret |-> EmptyDict]
    ELSE LET m == MaxOf(DictValues(self.expert_weights), 1)
             max_weight == IF m[1] = 0 THEN ROne ELSE m
             rates == [i \in 1..Len(self.expert_weights) |->
                          <<self.expert_weights[i][1],
                            RDiv(self.expert_weights[i][2], max_weight)>>]
         IN [self |-> [self EXCEPT !.discount_rates = rates], ret |-> rates]

\* Mutant of calculate_discount_rates: the weights are divided by their sum.
calculate_discount_rates_by_sum(self) ==
    IF Len(self.expert_weights) = 0 THEN [self |-> self, ret |-> EmptyDict]
    ELSE LET max_weight == MaxOf(DictValues(self.expert_weights), 1)
             sum_weight == SumSeq(DictValues(self.expert_weights), 1)
         IN IF max_weight[1] = 0 THEN [self |-> self, ret |-> EmptyDict]
            ELSE LET rates == [i \in 1..Len(self.expert_weights) |->
                                  <<self.expert_weights[i][1],
                                    RDiv(self.expert_weights[i][2], sum_weight)>>]
                 IN [self |-> [self EXCEPT !.discount_rates = rates], ret |-> rates]

\* calculate_discount_rates: ω*_k = ω_k / max(ω_1, ..., ω_n)
calculate_discount_rates(self) ==
    IF Len(self.expert_weights) = 0 THEN [self |-> self, ret |-> EmptyDict]
    ELSE LET max_weight == MaxOf(DictValues(self.expert_weights), 1)
         IN IF max_weight[1] = 0 THEN [self |-> self, ret |-> EmptyDict]
            ELSE LET rates == [i \in 1..Len(self.expert_weights) |->
                                  <<self.expert_weights[i][1],
                                    RDiv(self.expert_weights[i][2], max_weight)>>]
                 IN [self |-> [self EXCEPT !.discount_rates = rates], ret |-> rates]

\* math.sqrt(d): the float nearest the square root, a rational number.  The
\* model takes the exact root where it is rational and a rational near it
\* otherwise (7/5 for d = 2, 7/4 for d = 3).
math_sqrt(d) ==
    CASE d = 1 -> <<1, 1>>
      [] d = 2 -> <<7, 5>>
      [] d = 3 -> <<7, 4>>
      [] d = 4 -> <<2, 1>>

\* the BOE the loop of compute_criterion_boe builds and the normalization
\* that follows it; ignorance is the numerator of the mass written to Θ
CriterionMasses(preferences, cpv, denominator, ignorance) ==
    LET d      == Len(preferences)
        parsed == [i \in 1..d |-> Range(parse_gdm_group_string(preferences[i][1]))]
        kept   == { i \in 1..d : parsed[i] # {} }
        keys   == { parsed[i] : i \in kept } \cup {universal_set}
        \* boe[group_set] = m_value: a later group overwrites an earlier one
        last(k) == CHOOSE i \in kept :
                       parsed[i] = k /\ \A j \in kept : parsed[j] = k => j <= i
        boe    == [k \in keys |->
                      IF k = universal_set
                      THEN RDiv(ignorance, denominator)
                      ELSE RDiv(RMul(<<preferences[last(k)][2], 1>>, cpv), denominator)]
        total  == TotalMass(boe)
    IN IF RLt(<<1, 10000>>, RAbs(RSub(total, ROne)))
       THEN [k \in keys |-> RDiv(boe[k], total)]
       ELSE boe

\* the BOE is stored under the expert and the criterion, and returned
StoreCriterionBoe(self, expert_name, criterion, boe) ==
    LET own == IF DictHas(self.criterion_boes, expert_name)
               THEN DictGet(self.criterion_boes, expert_name) ELSE EmptyDict
    IN [self |-> [self EXCEPT !.criterion_boes =
                     DictPut(@, expert_name, DictPut(own, criterion, boe))],
        ret  |-> boe]

\* Mutant of compute_criterion_boe: the mass of Θ is d / denominator, not
\* sqrt(d) / denominator.
compute_criterion_boe_theta_d(self, expert_name, criterion) ==
    IF ~DictHas(self.experts, expert_name) THEN [self |-> self, ret |-> EmptyDict]
    ELSE LET expert == DictGet(self.experts, expert_name)
         IN IF ~DictHas(expert.preferences, criterion)
            THEN [self |-> self, ret |-> TotalIgnorance]
            ELSE LET preferences == DictGet(expert.preferences, criterion)
                     cpv == IF DictHas(expert.cpvs, criterion)
                            THEN DictGet(expert.cpvs, criterion) ELSE RZero
                 IN IF cpv[1] = 0 \/ Len(preferences) = 0
                    THEN [self |-> self, ret |-> TotalIgnorance]
                    ELSE LET d == Len(preferences)
                             sum_aj_p == SumSeq([i \in 1..d |->
                                            RMul(<<preferences[i][2], 1>>, cpv)], 1)
                             denominator == RAdd(sum_aj_p, math_sqrt(d))
                         IN IF denominator[1] = 0
                            THEN [self |-> self, ret |-> TotalIgnorance]
                            ELSE StoreCriterionBoe(self, expert_name, criterion,
                                     CriterionMasses(preferences, cpv, denominator,
                                                     <<d, 1>>))

\* compute_criterion_boe: m(s_i) = a_i * p / (sum_j a_j * p + sqrt(d)),
\* m(Θ) = sqrt(d) / (sum_j a_j * p + sqrt(d))
compute_criterion_boe(self, expert_name, criterion) ==
    IF ~DictHas(self.experts, expert_name) THEN [self |-> self, ret |-> EmptyDict]
    ELSE LET expert == DictGet(self.experts, expert_name)
         IN IF ~DictHas(expert.preferences, criterion)
            THEN [self |-> self, ret |-> TotalIgnorance]
            ELSE LET preferences == DictGet(expert.preferences, criterion)
                     cpv == IF DictHas(expert.cpvs, criterion)
                            THEN DictGet(expert.cpvs, criterion) ELSE RZero
                 IN IF cpv[1] = 0 \/ Len(preferences) = 0
                    THEN [self |-> self, ret |-> TotalIgnorance]
                    ELSE LET d == Len(preferences)
                             sum_aj_p == SumSeq([i \in 1..d |->
                                            RMul(<<preferences[i][2], 1>>, cpv)], 1)
                             denominator == RAdd(sum_aj_p, math_sqrt(d))
                         IN IF denominator[1] = 0
                            THEN [self |-> self, ret |-> TotalIgnorance]
                            ELSE StoreCriterionBoe(self, expert_name, criterion,
                                     CriterionMasses(preferences, cpv, denominator,
                                                     math_sqrt(d)))

\* compute_all_criterion_boes: every expert, every criterion, in order
RECURSIVE AllCriterionBoes(_, _, _)
AllCriterionBoes(self, e, c) ==
    IF e > Len(self.experts) THEN self
    ELSE IF c > Len(criteria) THEN AllCriterionBoes(self, e + 1, 1)
    ELSE AllCriterionBoes(
             compute_criterion_boe(self, self.experts[e][1], criteria[c]).self, e, c + 1)

compute_all_criterion_boes(self) == AllCriterionBoes(self, 1, 1)

\* the combiner compute_individual_boe and compute_group_boe construct, and
\* the multi-source operation they call on it
CombineWith(combination_rule, conflict_threshold_arg, boe_list) ==
    LET combiner == IF combination_rule = "adaptive" /\ conflict_threshold_arg # None
                    THEN CombinationRules(conflict_threshold_arg)
                    ELSE CombinationRules(None)
    IN IF combination_rule = "yager" THEN yager_combine_multiple(combiner, boe_list).ret
       ELSE IF combination_rule = "adaptive"
            THEN adaptive_combine_multiple(combiner, boe_list).ret
            ELSE dempster_combine_multiple(combiner, boe_list).ret

\* self.individual_boes[expert_name] = individual_boe; return individual_boe
StoreIndividualBoe(self, expert_name, individual_boe) ==
    [self |-> [self EXCEPT !.individual_boes = DictPut(@, expert_name, individual_boe)],
     ret  |-> individual_boe]

\* compute_individual_boe once the expert's criterion BOEs have been looked for
CombineCriterionBoes(self, expert_name, combination_rule, conflict_threshold_arg) ==
    IF ~DictHas(self.criterion_boes, expert_name)
    THEN [self |-> self, ret |-> TotalIgnorance]
    ELSE LET criterion_boes == DictGet(self.criterion_boes, expert_name)
         IN IF Len(criterion_boes) = 0
            THEN [self |-> self, ret |-> TotalIgnorance]
            ELSE StoreIndividualBoe(self, expert_name,
                     CombineWith(combination_rule, conflict_threshold_arg,
                                 DictValues(criterion_boes)))

\* Mutant of compute_individual_boe: an individual BOE stored by an earlier
\* run is returned as it is.
compute_individual_boe_cached(self, expert_name, combination_rule, conflict_threshold_arg) ==
    IF ~DictHas(self.experts, expert_name) THEN [self |-> self, ret |-> EmptyDict]
    ELSE IF DictHas(self.individual_boes, expert_name)
    THEN [self |-> self, ret |-> DictGet(self.individual_boes, expert_name)]
    ELSE CombineCriterionBoes(IF ~DictHas(self.criterion_boes, expert_name)
                              THEN compute_all_criterion_boes(self) ELSE self,
                              expert_name, combination_rule, conflict_threshold_arg)

compute_individual_boe(self, expert_name, combination_rule, conflict_threshold_arg) ==
    IF ~DictHas(self.experts, expert_name) THEN [self |-> self, ret |-> EmptyDict]
    ELSE CombineCriterionBoes(IF ~DictHas(self.criterion_boes, expert_name)
                              THEN compute_all_criterion_boes(self) ELSE self,
                              expert_name, combination_rule, conflict_threshold_arg)

\* Mutant of adjust_boe_with_importance: the mass of Θ is discounted too.
adjust_boe_with_importance_discounts_theta(self, expert_name) ==
    IF ~DictHas(self.individual_boes, expert_name)
    THEN [self |-> self, ret |-> EmptyDict]
    ELSE LET individual_boe == DictGet(self.individual_boes, expert_name)
         IN IF ~DictHas(self.discount_rates, expert_name)
            THEN [self |-> self, ret |-> individual_boe]
            ELSE LET discount_rate == DictGet(self.discount_rates, expert_name)
                 IN IF LtEps(RAbs(RSub(discount_rate, ROne)))
                    THEN [self |-> [self EXCEPT !.adjusted_boes =
                                       DictPut(@, expert_name, individual_boe)],
                          ret  |-> individual_boe]
                    ELSE LET discounted ==
                                 [focal \in DOMAIN individual_boe |->
                                     IF focal = universal_set
                                     THEN RMul(individual_boe[focal], discount_rate)
                                     ELSE RMul(individual_boe[focal], discount_rate)]
                             \* sum_adjusted + ignorance_mass
                             total == TotalMass(discounted)
                             adjusted_boe ==
                                 IF total[1] = 0
                                 THEN TotalIgnorance
                                 ELSE [focal \in DOMAIN discounted |->
                                          RDiv(discounted[focal], total)]
                         IN [self |-> [self EXCEPT !.adjusted_boes =
                                          DictPut(@, expert_name, adjusted_boe)],
                             ret  |-> adjusted_boe]

\* Mutant of adjust_boe_with_importance: a zero total is not replaced by
\* total ignorance, the discounted masses (all 0) are kept.
adjust_boe_with_importance_keeps_zero_total(self, expert_name) ==
    IF ~DictHas(self.individual_boes, expert_name)
    THEN [self |-> self, ret |-> EmptyDict]
    ELSE LET individual_boe == DictGet(self.individual_boes, expert_name)
         IN IF ~DictHas(self.discount_rates, expert_name)
            THEN [self |-> self, ret |-> individual_boe]
            ELSE LET discount_rate == DictGet(self.discount_rates, expert_name)
                 IN IF LtEps(RAbs(RSub(discount_rate, ROne)))
                    THEN [self |-> [self EXCEPT !.adjusted_boes =
                                       DictPut(@, expert_name, individual_boe)],
                          ret  |-> individual_boe]
                    ELSE LET discounted ==
                                 [focal \in DOMAIN individual_boe |->
                                     IF focal = universal_set
                                     THEN individual_boe[focal]
                                     ELSE RMul(individual_boe[focal], discount_rate)]
                             \* sum_adjusted + ignorance_mass
                             total == TotalMass(discounted)
                             adjusted_boe ==
                                 IF total[1] = 0
                                 THEN discounted
                                 ELSE [focal \in DOMAIN discounted |->
                                          RDiv(discounted[focal], total)]
                         IN [self |-> [self EXCEPT !.adjusted_boes =
                                          DictPut(@, expert_name, adjusted_boe)],
                             ret  |-> adjusted_boe]

\* adjust_boe_with_importance: m*(s) = ω* · m(s) for s # Θ, m*(Θ) = m(Θ),
\* then the division by the total
adjust_boe_with_importance(self, expert_name) ==
    IF ~DictHas(self.individual_boes, expert_name)
    THEN [self |-> self, ret |-> EmptyDict]
    ELSE LET individual_boe == DictGet(self.individual_boes, expert_name)
         IN IF ~DictHas(self.discount_rates, expert_name)
            THEN [self |-> self, ret |-> individual_boe]
            ELSE LET discount_rate == DictGet(self.discount_rates, expert_name)
                 IN IF LtEps(RAbs(RSub(discount_rate, ROne)))
                    THEN [self |-> [self EXCEPT !.adjusted_boes =
                                       DictPut(@, expert_name, individual_boe)],
                          ret  |-> individual_boe]
                    ELSE LET discounted ==
                                 [focal \in DOMAIN individual_boe |->
                                     IF focal = universal_set
                                     THEN individual_boe[focal]
                                     ELSE RMul(individual_boe[focal], discount_rate)]
                             \* sum_adjusted + ignorance_mass
                             total == TotalMass(discounted)
                             adjusted_boe ==
                                 IF total[1] = 0
                                 THEN TotalIgnorance
                                 ELSE [focal \in DOMAIN discounted |->
                                          RDiv(discounted[focal], total)]
                         IN [self |-> [self EXCEPT !.adjusted_boes =
                                          DictPut(@, expert_name, adjusted_boe)],
                             ret  |-> adjusted_boe]

\* self.group_boe = group_boe; return group_boe
StoreGroupBoe(self, group_boe) ==
    [self |-> [self EXCEPT !.group_boe = group_boe], ret |-> group_boe]

compute_group_boe(self, combination_rule, use_adjusted, conflict_threshold_arg) ==
    LET boes_to_combine == IF use_adjusted THEN self.adjusted_boes
                           ELSE self.individual_boes
    IN IF Len(boes_to_combine) = 0 THEN [self |-> self, ret |-> EmptyDict]
       ELSE StoreGroupBoe(self, CombineWith(combination_rule, conflict_threshold_arg,
                                            DictValues(boes_to_combine)))

(***************************************************************************)
(* BeliefPlausibilityCalculator (src/belief_plausibility.py).              *)
(***************************************************************************)
DEFAULT_PESSIMISM_COEFFICIENT == <<1, 2>>
DEFAULT_COMBINATION_RULE == "dempster"

BeliefPlausibilityCalculator ==
    [belief_functions       |-> EmptyDict,
     plausibility_functions |-> EmptyDict,
     intervals              |-> EmptyDict,
     scores                 |-> EmptyDict,
     optimal_alternative    |-> NoneName,
     ranking                |-> <<>>,
     all_alternatives       |-> {}]

\* generate_all_subsets: the combinations of every size 1..n
generate_all_subsets(alternatives_arg) ==
    UNION { { S \in SUBSET Range(alternatives_arg) : Cardinality(S) = size } :
            size \in 1..Len(alternatives_arg) }

\* the masses of the focal elements contained in the subset
calculate_belief_for_subset(subset, combined_beliefs) ==
    SumOver(combined_beliefs, { focal \in DOMAIN combined_beliefs : focal \subseteq subset })

\* Mutant of calculate_plausibility_for_subset: the test is inverted, the
\* focal elements disjoint from the subset are summed.
calculate_plausibility_for_subset_disjoint(subset, combined_beliefs) ==
    SumOver(combined_beliefs,
            { focal \in DOMAIN combined_beliefs : focal \cap subset = {} })

\* the masses of the focal elements that intersect the subset
calculate_plausibility_for_subset(subset, combined_beliefs) ==
    SumOver(combined_beliefs,
            { focal \in DOMAIN combined_beliefs : focal \cap subset # {} })

calculate_belief_plausibility(self, combined_beliefs, all_alternatives_arg) ==
    LET all_subsets == generate_all_subsets(all_alternatives_arg)
        belief == [subset \in all_subsets |->
                      calculate_belief_for_subset(subset, combined_beliefs)]
        plausibility == [subset \in all_subsets |->
                            calculate_plausibility_for_subset(subset, combined_beliefs)]
    IN [self |-> [self EXCEPT
                     !.belief_functions = belief,
                     !.plausibility_functions = plausibility,
                     !.intervals = [subset \in all_subsets |->
                                       <<belief[subset], plausibility[subset]>>],
                     !.all_alternatives = Range(all_alternatives_arg)],
        ret  |-> <<belief, plausibility>>]

\* the names of the alternatives in the order of Python's sorted()
AlphabeticalOrder == <<"A", "B">>

RECURSIVE SelectIn(_, _, _)
SelectIn(seq, S, i) ==
    IF i > Len(seq) THEN <<>>
    ELSE (IF seq[i] \in S THEN <<seq[i]>> ELSE <<>>) \o SelectIn(seq, S, i + 1)

sorted(S) == SelectIn(AlphabeticalOrder, S, 1)

\* sorted(items, key=score, reverse=True): a stable sort, items of equal
\* score keep the order they have in items
RECURSIVE SortedByScoreDescending(_)
SortedByScoreDescending(items) ==
    IF Len(items) = 0 THEN <<>>
    ELSE LET first == CHOOSE i \in 1..Len(items) :
                          /\ \A j \in 1..Len(items) : RLe(items[j][2], items[i][2])
                          /\ \A j \in 1..(i - 1) : items[j][2] # items[i][2]
             rest  == [j \in 1..(Len(items) - 1) |->
                          IF j < first THEN items[j] ELSE items[j + 1]]
         IN <<items[first]>> \o SortedByScoreDescending(rest)

\* Mutant of ScoresOf: γ weighs the Plausibility and 1 - γ the Belief.
ScoresOf_swapped(self, alts, pessimism_coef) ==
    [i \in 1..Len(alts) |->
        <<alts[i],
          RAdd(RMul(pessimism_coef, self.plausibility_functions[{alts[i]}]),
               RMul(RSub(ROne, pessimism_coef),
                    self.belief_functions[{alts[i]}]))>>]

\* self.scores: Score = γ·Bel + (1 - γ)·Pl of every singleton, in the order alts
ScoresOf(self, alts, pessimism_coef) ==
    [i \in 1..Len(alts) |->
        <<alts[i],
          RAdd(RMul(pessimism_coef, self.belief_functions[{alts[i]}]),
               RMul(RSub(ROne, pessimism_coef),
                    self.plausibility_functions[{alts[i]}]))>>]

\* self.ranking and self.optimal_alternative, from the scores
StoreRanking(self, scores, ranking) ==
    [self |-> [self EXCEPT
                  !.scores = scores,
                  !.ranking = ranking,
                  !.optimal_alternative = IF Len(ranking) > 0 THEN ranking[1][1] ELSE @],
     ret  |-> None]

RankScores(self, scores) == StoreRanking(self, scores, SortedByScoreDescending(scores))

rank_alternatives(self, pessimism_coef) ==
    RankScores(self,
               ScoresOf(self,
                        sorted({ alt \in self.all_alternatives :
                                   {alt} \in DOMAIN self.intervals }),
                        pessimism_coef))

\* return self.optimal_alternative
ReturnOptimal(self) == [self |-> self, ret |-> self.optimal_alternative]

find_optimal_alternative(self, pessimism_coef_arg) ==
    IF DOMAIN self.intervals = {} THEN [self |-> self, ret |-> NoneName]
    ELSE ReturnOptimal(rank_alternatives(self,
                           IF pessimism_coef_arg = None
                           THEN DEFAULT_PESSIMISM_COEFFICIENT
                           ELSE pessimism_coef_arg).self)

(***************************************************************************)
(* GDMAnalyzer (src/gdm_analyzer.py).                                      *)
(***************************************************************************)
GDMAnalyzer(combination_rule_arg, conflict_threshold_arg) ==
    [combination_rule      |-> IF combination_rule_arg = NoneName
                               THEN DEFAULT_COMBINATION_RULE ELSE combination_rule_arg,
     pessimism_coefficient |-> DEFAULT_PESSIMISM_COEFFICIENT,
     conflict_threshold    |-> IF conflict_threshold_arg = None
                               THEN DEFAULT_CONFLICT_THRESHOLD ELSE conflict_threshold_arg,
     expert_manager        |-> None,
     belief_calculator     |-> None,
     experts_data          |-> EmptyDict,
     results               |-> EmptyDict,
     group_boe             |-> None]

MIN_PESSIMISM_COEFFICIENT == RZero
MAX_PESSIMISM_COEFFICIENT == ROne

set_combination_rule(self, rule) ==
    IF rule \in {"dempster", "yager", "adaptive"}
    THEN [self |-> [self EXCEPT !.combination_rule = rule], ret |-> TRUE]
    ELSE [self |-> self, ret |-> FALSE]

set_pessimism_coefficient(self, coefficient) ==
    IF RLe(MIN_PESSIMISM_COEFFICIENT, coefficient)
         /\ RLe(coefficient, MAX_PESSIMISM_COEFFICIENT)
    THEN [self |-> [self EXCEPT !.pessimism_coefficient = coefficient], ret |-> TRUE]
    ELSE [self |-> self, ret |-> FALSE]

\* GDMAnalyzer.set_conflict_threshold
GDMAnalyzer_set_conflict_threshold(self, threshold) ==
    IF RLe(MIN_CONFLICT_THRESHOLD, threshold) /\ RLe(threshold, MAX_CONFLICT_THRESHOLD)
    THEN [self |-> [self EXCEPT !.conflict_threshold = threshold], ret |-> TRUE]
    ELSE [self |-> self, ret |-> FALSE]

RECURSIVE AddExperts(_, _, _)
AddExperts(manager, experts_data_arg, i) ==
    IF i > Len(experts_data_arg) THEN [self |-> manager, experts_added |-> 0]
    ELSE LET info == experts_data_arg[i][2]
             r    == add_expert(manager, experts_data_arg[i][1], info.weight,
                                info.cpvs, info.preferences)
             rest == AddExperts(r.self, experts_data_arg, i + 1)
         IN [self |-> rest.self,
             experts_added |-> rest.experts_added + (IF r.ret THEN 1 ELSE 0)]

load_data_manually(self, experts_data_arg) ==
    LET added == AddExperts(ExpertManager, experts_data_arg, 1)
    IN [self |-> [self EXCEPT !.experts_data = experts_data_arg,
                              !.expert_manager = added.self],
        ret  |-> added.experts_added > 0]

\* steps 2 and 3 of run_analysis: loops over self.experts_data.keys()
RECURSIVE IndividualBoes(_, _, _, _)
IndividualBoes(manager, self, names, i) ==
    IF i > Len(names) THEN manager
    ELSE IndividualBoes(
             compute_individual_boe(manager, names[i], self.combination_rule,
                                    IF self.combination_rule = "adaptive"
                                    THEN self.conflict_threshold ELSE None).self,
             self, names, i + 1)

RECURSIVE AdjustedBoes(_, _, _)
AdjustedBoes(manager, names, i) ==
    IF i > Len(names) THEN manager
    ELSE AdjustedBoes(adjust_boe_with_importance(manager, names[i]).self, names, i + 1)

\* save_results, and the return of the optimal alternative
save_results(self, manager, group_boe, calc, use_adjusted_boe) ==
    [self |-> [self EXCEPT
                  !.expert_manager = manager,
                  !.group_boe = group_boe,
                  !.belief_calculator = calc,
                  !.results = [optimal_alternative |-> calc.optimal_alternative,
                               ranking |-> calc.ranking,
                               scores |-> calc.scores,
                               intervals |-> calc.intervals,
                               belief_functions |-> calc.belief_functions,
                               plausibility_functions |-> calc.plausibility_functions,
                               use_adjusted_boe |-> use_adjusted_boe,
                               combination_rule |-> self.combination_rule]],
     ret  |-> calc.optimal_alternative]

\* steps 5 to 7 of run_analysis, from what compute_group_boe returned
AfterGroupBoe(self, use_adjusted_boe, group) ==
    IF IsNone(group.ret)
    THEN [self |-> [self EXCEPT !.expert_manager = group.self,
                                !.group_boe = group.ret],
          ret  |-> NoneName]
    ELSE save_results(self, group.self, group.ret,
                      find_optimal_alternative(
                          calculate_belief_plausibility(
                              BeliefPlausibilityCalculator, group.ret, alternatives).self,
                          self.pessimism_coefficient).self,
                      use_adjusted_boe)

run_analysis(self, use_adjusted_boe) ==
    IF IsNone(self.expert_manager)
    THEN \* AttributeError, caught by the except clause
         [self |-> self, ret |-> NoneName]
    ELSE AfterGroupBoe(self, use_adjusted_boe,
             compute_group_boe(
                 AdjustedBoes(
                     IndividualBoes(calculate_discount_rates(self.expert_manager).self,
                                    self, DictKeys(self.experts_data), 1),
                     DictKeys(self.experts_data), 1),
                 self.combination_rule, use_adjusted_boe, self.conflict_threshold))

(***************************************************************************)
(* The state: one CombinationRules object, the BOEs its caller holds, the  *)
(* methods called on the object so far and what the last call returned.    *)
(***************************************************************************)
VARIABLES
    conflict_threshold,   \* self.conflict_threshold
    conflict_history,     \* self.conflict_history
    step_decisions,       \* self.step_decisions
    bpas,                 \* the caller's BOEs: the arguments of the calls
    calls,                \* the names of the methods called so far, in order
    result,               \* what the last call returned
    analyzer,             \* the GDMAnalyzer of a run, with its ExpertManager
    manager,              \* an ExpertManager used on its own
    calculator,           \* a BeliefPlausibilityCalculator used on its own
    menu,                 \* the Menu of the interactive program
    args                  \* the arguments of the last call on analyzer or manager

vars == <<conflict_threshold, conflict_history, step_decisions, bpas, calls, result,
          analyzer, manager, calculator, menu, args>>

rules_vars == <<conflict_threshold, conflict_history, step_decisions, bpas>>

Self == [conflict_threshold |-> conflict_threshold,
         conflict_history   |-> conflict_history,
         step_decisions     |-> step_decisions]

last_call == IF calls = <<>> THEN "init" ELSE calls[Len(calls)]

\* thresholds a caller configures: None (the default 0.4), 0.5 and 1.0
ThresholdArgs == {None, <<1, 2>>, MAX_CONFLICT_THRESHOLD}

Constructed ==
    \E t \in ThresholdArgs :
        LET obj == CombinationRules(t)
        IN /\ conflict_threshold = obj.conflict_threshold
           /\ conflict_history = obj.conflict_history
           /\ step_decisions = obj.step_decisions

\* the argument lists of the calls: up to MaxSources valid BOEs, and the pair of
\* the worked example
InputSequences ==
    UNION { [1..n -> ValidBOEs] : n \in 0..MaxSources } \cup {<<m1Example, m2Example>>}

Init ==
    /\ Constructed
    /\ bpas \in InputSequences
    /\ calls = <<>>
    /\ result = EmptyDict
    /\ analyzer = None
    /\ manager = None
    /\ calculator = None
    /\ menu = None
    /\ args = <<>>

Returns(name, r) ==
    /\ conflict_threshold' = r.self.conflict_threshold
    /\ conflict_history' = r.self.conflict_history
    /\ step_decisions' = r.self.step_decisions
    /\ calls' = Append(calls, name)
    /\ result' = r.ret
    /\ UNCHANGED <<bpas, analyzer, manager, calculator, menu, args>>

DempsterCombine ==
    /\ Len(bpas) >= 2
    /\ Returns("dempster_combine", dempster_combine(Self, bpas[1], bpas[2]))

YagerCombine ==
    /\ Len(bpas) >= 2
    /\ Returns("yager_combine", yager_combine(Self, bpas[1], bpas[2]))

AdaptiveCombine ==
    /\ Len(bpas) >= 2
    /\ Returns("adaptive_combine", adaptive_combine(Self, bpas[1], bpas[2]))

DempsterCombineMultiple ==
    Returns("dempster_combine_multiple", dempster_combine_multiple(Self, bpas))

YagerCombineMultiple ==
    Returns("yager_combine_multiple", yager_combine_multiple(Self, bpas))

AdaptiveCombineMultiple ==
    Returns("adaptive_combine_multiple", adaptive_combine_multiple(Self, bpas))

SetConflictThreshold ==
    \E threshold \in {MIN_CONFLICT_THRESHOLD, <<1, 2>>, MAX_CONFLICT_THRESHOLD, <<3, 2>>} :
        Returns("set_conflict_threshold", set_conflict_threshold(Self, threshold))

\* Spec: one call on a freshly constructed object, for every input sequence
Fresh == calls = <<>>

Next ==
    \/ Fresh /\ DempsterCombine
    \/ Fresh /\ YagerCombine
    \/ Fresh /\ AdaptiveCombine
    \/ Fresh /\ DempsterCombineMultiple
    \/ Fresh /\ YagerCombineMultiple
    \/ Fresh /\ AdaptiveCombineMultiple

Spec == Init /\ [][Next]_vars

\* SpecFold: one multi-source call on a freshly constructed object
FoldNext ==
    \/ Fresh /\ DempsterCombineMultiple
    \/ Fresh /\ YagerCombineMultiple
    \/ Fresh /\ AdaptiveCombineMultiple

SpecFold == Init /\ [][FoldNext]_vars

\* SpecSession: up to MaxCalls successive calls on one object
SessionBOEs == {m1Example, m2Example,
                [f \in {{"A"}} |-> ROne], [f \in {{"B"}} |-> ROne]}

SessionInit ==
    /\ Constructed
    /\ bpas \in UNION { [1..n -> SessionBOEs] : n \in 2..MaxSources }
    /\ calls = <<>>
    /\ result = EmptyDict
    /\ analyzer = None
    /\ manager = None
    /\ calculator = None
    /\ menu = None
    /\ args = <<>>

MayCall == Len(calls) < MaxCalls

SessionNext ==
    \/ MayCall /\ DempsterCombine
    \/ MayCall /\ YagerCombine
    \/ MayCall /\ AdaptiveCombine
    \/ MayCall /\ DempsterCombineMultiple
    \/ MayCall /\ YagerCombineMultiple
    \/ MayCall /\ AdaptiveCombineMultiple
    \/ MayCall /\ SetConflictThreshold

SpecSession == SessionInit /\ [][SessionNext]_vars

(***************************************************************************)
(* SpecRun: a GDMAnalyzer is constructed, the experts' data are loaded and *)
(* the analysis is run.                                                    *)
(***************************************************************************)
\* the experts are named in this order
ExpertNames == <<"E1", "E2", "E3", "E4">>

Weights == {RZero, <<1, 2>>, ROne}

\* the CPVs of the two criteria: all 0, 0.5 each, or all on the first
CpvChoices ==
    { <<<<"c1", x[1]>>, <<"c2", x[2]>>>> :
        x \in {<<RZero, RZero>>, <<<<1, 2>>, <<1, 2>>>>, <<ROne, RZero>>} }

\* the partitions of the alternatives into ranked groups: the one group
\* "A,B" with rank 1, or the groups "A" and "B" with the ranks a and b
OneGroup == << <<<<"A", "B">>, 1>> >>
Ranked(a, b) == << <<<<"A">>, a>>, <<<<"B">>, b>> >>

\* an expert's preferences: under c1 one group or B above A, under c2 A above B
PreferenceChoices ==
    { <<<<"c1", g>>, <<"c2", Ranked(2, 1)>>>> : g \in {OneGroup, Ranked(1, 2)} }

ExpertInfos == [weight : Weights, cpvs : CpvChoices, preferences : PreferenceChoices]

ExpertsData ==
    UNION { { [i \in 1..n |-> <<ExpertNames[i], f[i]>>] : f \in [1..n -> ExpertInfos] } :
            n \in 0..MaxExperts }

\* GDMAnalyzer(combination_rule, conflict_threshold)
AnalyzerArgs ==
    {<<NoneName, None>>, <<"yager", None>>, <<"adaptive", None>>, <<"adaptive", <<1, 2>>>>}

RunInit ==
    /\ \E a \in AnalyzerArgs : analyzer = GDMAnalyzer(a[1], a[2])
    /\ bpas = <<>>
    /\ calls = <<>>
    /\ result = EmptyDict
    /\ manager = None
    /\ calculator = None
    /\ menu = None
    /\ args = <<>>
    /\ conflict_threshold = DEFAULT_CONFLICT_THRESHOLD
    /\ conflict_history = <<>>
    /\ step_decisions = <<>>

LoadDataManually ==
    /\ calls = <<>>
    /\ \E experts_data \in ExpertsData :
          LET r == load_data_manually(analyzer, experts_data)
          IN /\ analyzer' = r.self
             /\ result' = r.ret
             /\ args' = <<experts_data>>
    /\ calls' = Append(calls, "load_data_manually")
    /\ UNCHANGED <<rules_vars, manager, calculator, menu>>

RunAnalysis ==
    /\ Len(calls) = 1
    /\ \E use_adjusted_boe \in BOOLEAN :
          LET r == run_analysis(analyzer, use_adjusted_boe)
          IN /\ analyzer' = r.self
             /\ result' = r.ret
             /\ args' = <<use_adjusted_boe>>
    /\ calls' = Append(calls, "run_analysis")
    /\ UNCHANGED <<rules_vars, manager, calculator, menu>>

RunNext ==
    \/ LoadDataManually
    \/ RunAnalysis

SpecRun == RunInit /\ [][RunNext]_vars

(***************************************************************************)
(* SpecManager: the discounting operations of an ExpertManager, for        *)
(* registered experts of any weights who hold any valid BOE as individual  *)
(* BOE (the same for every expert: the operations treat each expert's BOE  *)
(* on its own).                                                            *)
(***************************************************************************)
RegisteredInfo(weight) ==
    [weight |-> weight,
     cpvs |-> <<<<"c1", <<1, 2>>>>, <<"c2", <<1, 2>>>>>>,
     preferences |-> <<<<"c1", Ranked(1, 2)>>, <<"c2", Ranked(2, 1)>>>>]

ManagerInit ==
    /\ \E n \in 1..MaxExperts :
          \E w \in [1..n -> Weights], b \in ValidBOEs :
              manager = [ExpertManager EXCEPT
                            !.experts = [i \in 1..n |->
                                            <<ExpertNames[i], RegisteredInfo(w[i])>>],
                            !.expert_weights = [i \in 1..n |-> <<ExpertNames[i], w[i]>>],
                            !.individual_boes = [i \in 1..n |-> <<ExpertNames[i], b>>]]
    /\ analyzer = None
    /\ calculator = None
    /\ menu = None
    /\ args = <<>>
    /\ calls = <<>>
    /\ result = EmptyDict
    /\ bpas = <<>>
    /\ conflict_threshold = DEFAULT_CONFLICT_THRESHOLD
    /\ conflict_history = <<>>
    /\ step_decisions = <<>>

CalculateDiscountRates ==
    /\ Len(calls) <= MaxExperts
    /\ LET r == calculate_discount_rates(manager)
       IN /\ manager' = r.self
          /\ result' = r.ret
    /\ args' = <<>>
    /\ calls' = Append(calls, "calculate_discount_rates")
    /\ UNCHANGED <<rules_vars, analyzer, calculator, menu>>

AdjustBoeWithImportance ==
    /\ Len(calls) <= MaxExperts
    /\ \E i \in 1..Len(manager.experts) :
          LET expert_name == manager.experts[i][1]
              r == adjust_boe_with_importance(manager, expert_name)
          IN /\ manager' = r.self
             /\ result' = r.ret
             /\ args' = <<expert_name>>
    /\ calls' = Append(calls, "adjust_boe_with_importance")
    /\ UNCHANGED <<rules_vars, analyzer, calculator, menu>>

ManagerNext ==
    \/ CalculateDiscountRates
    \/ AdjustBoeWithImportance

SpecManager == ManagerInit /\ [][ManagerNext]_vars

(***************************************************************************)
(* SpecRegister: experts are offered to an ExpertManager one at a time,    *)
(* with valid and invalid data, and individual BOEs are computed.          *)
(***************************************************************************)
\* expert names: empty, blank, and two proper names
NameArgs == {"", " ", "E1", "E2"}

\* preferences that are not partitions of the alternatives under c1: B is
\* missing; A stands in the groups "A" and " A"; A stands twice in one
\* group; and a partition whose ranks are equal
MissingB == << <<"c1", << <<<<"A">>, 1>> >> >>, <<"c2", Ranked(2, 1)>> >>
ATwice == << <<"c1", << <<<<"A">>, 1>>, <<<<" A">>, 2>> >> >>, <<"c2", Ranked(2, 1)>> >>
ATwiceAndB ==
    << <<"c1", << <<<<"A", "A">>, 1>>, <<<<"B">>, 2>> >> >>, <<"c2", Ranked(2, 1)>> >>
EqualRanks == << <<"c1", Ranked(1, 1)>>, <<"c2", Ranked(2, 1)>> >>

\* preferences given for c1 only, and no preferences at all
OnlyC1 == << <<"c1", Ranked(1, 2)>> >>
NoPreferences == EmptyDict

ValidPreferences == << <<"c1", Ranked(1, 2)>>, <<"c2", Ranked(2, 1)>> >>
PaddedPreferences ==
    << <<"c1", << <<<<" A">>, 1>>, <<<<"B">>, 2>> >> >>, <<"c2", Ranked(2, 1)>> >>

HalfCpvs == << <<"c1", <<1, 2>> >>, <<"c2", <<1, 2>> >> >>

\* the experts offered: valid ones, and ones that break one rule each
RegisterInfos ==
    [weight : {<<1, 2>>, ROne}, cpvs : {HalfCpvs},
     preferences : {ValidPreferences, PaddedPreferences, OnlyC1, NoPreferences,
                    MissingB, ATwice, ATwiceAndB, EqualRanks}]
    \cup [weight : {<<3, 2>>, <<0 - 1, 2>>}, cpvs : {HalfCpvs},
          preferences : {ValidPreferences}]
    \cup [weight : {ROne},
          cpvs : { << <<"c1", ROne>>, <<"c2", <<1, 2>> >> >>,
                   << <<"c1", <<3, 2>> >>, <<"c2", RZero>> >>,
                   << <<"c1", <<0 - 1, 2>> >>, <<"c2", <<1, 2>> >> >>,
                   << <<"c1", ROne>> >>, EmptyDict },
          preferences : {ValidPreferences}]

RegisterInit ==
    /\ manager = ExpertManager
    /\ analyzer = None
    /\ calculator = None
    /\ menu = None
    /\ args = <<>>
    /\ calls = <<>>
    /\ result = FALSE
    /\ bpas = <<>>
    /\ conflict_threshold = DEFAULT_CONFLICT_THRESHOLD
    /\ conflict_history = <<>>
    /\ step_decisions = <<>>

AddExpert ==
    /\ Len(calls) < MaxCalls
    /\ \E name \in NameArgs, info \in RegisterInfos :
          LET r == add_expert(manager, name, info.weight, info.cpvs, info.preferences)
          IN /\ manager' = r.self
             /\ result' = r.ret
             /\ args' = <<name, info>>
    /\ calls' = Append(calls, "add_expert")
    /\ UNCHANGED <<rules_vars, analyzer, calculator, menu>>

ComputeIndividualBoe ==
    /\ Len(calls) \in 1..MaxCalls
    /\ last_call = "add_expert"
    /\ \E expert_name \in NameArgs :
          LET r == compute_individual_boe(manager, expert_name, "dempster", None)
          IN /\ manager' = r.self
             /\ result' = (r.ret # EmptyDict)
             /\ args' = <<expert_name>>
    /\ calls' = Append(calls, "compute_individual_boe")
    /\ UNCHANGED <<rules_vars, analyzer, calculator, menu>>

RegisterNext ==
    \/ AddExpert
    \/ ComputeIndividualBoe

SpecRegister == RegisterInit /\ [][RegisterNext]_vars

(***************************************************************************)
(* SpecLoad: data of one or two experts, valid or breaking a structural    *)
(* rule, is loaded into a GDMAnalyzer and the analysis is run.             *)
(***************************************************************************)
\* a valid expert, and experts that break one structural rule each: the
\* partition, the CPV sum, the range of a CPV, the range of the weight
SuppliedInfos ==
    { [weight |-> ROne, cpvs |-> HalfCpvs, preferences |-> ValidPreferences],
      [weight |-> ROne, cpvs |-> HalfCpvs, preferences |-> MissingB],
      [weight |-> ROne, cpvs |-> << <<"c1", ROne>>, <<"c2", <<1, 2>> >> >>,
       preferences |-> ValidPreferences],
      [weight |-> ROne, cpvs |-> << <<"c1", <<3, 2>> >>, <<"c2", RZero>> >>,
       preferences |-> ValidPreferences],
      [weight |-> <<3, 2>>, cpvs |-> HalfCpvs, preferences |-> ValidPreferences] }

SuppliedData ==
    UNION { { [i \in 1..n |-> <<ExpertNames[i], f[i]>>] : f \in [1..n -> SuppliedInfos] } :
            n \in 1..MaxExperts }

LoadSuppliedData ==
    /\ calls = <<>>
    /\ \E experts_data \in SuppliedData :
          LET r == load_data_manually(analyzer, experts_data)
          IN /\ analyzer' = r.self
             /\ result' = r.ret
             /\ args' = <<experts_data>>
    /\ calls' = Append(calls, "load_data_manually")
    /\ UNCHANGED <<rules_vars, manager, calculator, menu>>

LoadNext ==
    \/ LoadSuppliedData
    \/ RunAnalysis

SpecLoad == RunInit /\ [][LoadNext]_vars

(***************************************************************************)
(* SpecReruns: data is loaded once into a GDMAnalyzer; then the rule, the  *)
(* pessimism coefficient and the threshold are set and the analysis is     *)
(* run, several times over.                                                *)
(***************************************************************************)
\* E1 of weight 1/2 ranks B above A under c1 and A above B under c2, E2 of
\* weight 1 ranks one group under c1; E0 has CPVs that are all 0
RerunE1 == [weight |-> <<1, 2>>, cpvs |-> HalfCpvs, preferences |-> ValidPreferences]
RerunE2 ==
    [weight |-> ROne, cpvs |-> << <<"c1", ROne>>, <<"c2", RZero>> >>,
     preferences |-> << <<"c1", Ranked(2, 1)>>, <<"c2", Ranked(2, 1)>> >>]
RerunE0 ==
    [weight |-> ROne, cpvs |-> << <<"c1", RZero>>, <<"c2", RZero>> >>,
     preferences |-> ValidPreferences]

RerunData ==
    { << <<"E1", RerunE1>> >>,
      << <<"E1", RerunE1>>, <<"E2", RerunE2>> >>,
      << <<"E1", RerunE0>>, <<"E2", RerunE1>> >>,
      << <<"E1", RerunE0>> >> }

RuleArgs == {"dempster", "yager", "adaptive", "unknown"}
CoefficientArgs == {RZero, ROne, <<3, 2>>}
SetThresholdArgs == {RZero, ROne, <<3, 2>>}

RerunInit ==
    /\ analyzer = GDMAnalyzer(NoneName, None)
    /\ bpas = <<>>
    /\ calls = <<>>
    /\ result = EmptyDict
    /\ manager = None
    /\ calculator = None
    /\ menu = None
    /\ args = <<>>
    /\ conflict_threshold = DEFAULT_CONFLICT_THRESHOLD
    /\ conflict_history = <<>>
    /\ step_decisions = <<>>

LoadRerunData ==
    /\ calls = <<>>
    /\ \E experts_data \in RerunData :
          LET r == load_data_manually(analyzer, experts_data)
          IN /\ analyzer' = r.self
             /\ result' = r.ret
             /\ args' = <<experts_data>>
    /\ calls' = Append(calls, "load_data_manually")
    /\ UNCHANGED <<rules_vars, manager, calculator, menu>>

SetCombinationRule ==
    /\ Len(calls) \in 1..(MaxCalls + 1)
    /\ \E rule \in RuleArgs :
          LET r == set_combination_rule(analyzer, rule)
          IN /\ analyzer' = r.self
             /\ result' = r.ret
             /\ args' = <<rule>>
    /\ calls' = Append(calls, "set_combination_rule")
    /\ UNCHANGED <<rules_vars, manager, calculator, menu>>

SetPessimismCoefficient ==
    /\ Len(calls) \in 1..(MaxCalls + 1)
    /\ \E coefficient \in CoefficientArgs :
          LET r == set_pessimism_coefficient(analyzer, coefficient)
          IN /\ analyzer' = r.self
             /\ result' = r.ret
             /\ args' = <<coefficient>>
    /\ calls' = Append(calls, "set_pessimism_coefficient")
    /\ UNCHANGED <<rules_vars, manager, calculator, menu>>

SetAnalyzerConflictThreshold ==
    /\ Len(calls) \in 1..(MaxCalls + 1)
    /\ \E threshold \in SetThresholdArgs :
          LET r == GDMAnalyzer_set_conflict_threshold(analyzer, threshold)
          IN /\ analyzer' = r.self
             /\ result' = r.ret
             /\ args' = <<threshold>>
    /\ calls' = Append(calls, "set_conflict_threshold")
    /\ UNCHANGED <<rules_vars, manager, calculator, menu>>

RunAgain ==
    /\ Len(calls) \in 1..(MaxCalls + 1)
    /\ \E use_adjusted_boe \in BOOLEAN :
          LET r == run_analysis(analyzer, use_adjusted_boe)
          IN /\ analyzer' = r.self
             /\ result' = r.ret
             /\ args' = <<use_adjusted_boe>>
    /\ calls' = Append(calls, "run_analysis")
    /\ UNCHANGED <<rules_vars, manager, calculator, menu>>

RerunNext ==
    \/ LoadRerunData
    \/ SetCombinationRule
    \/ SetPessimismCoefficient
    \/ SetAnalyzerConflictThreshold
    \/ RunAgain

SpecReruns == RerunInit /\ [][RerunNext]_vars

(***************************************************************************)
(* SpecPair: one operation that produces a BOE, on every pair of input     *)
(* BOEs: a pairwise combination, the DS/AHP builder, or the discounting.   *)
(***************************************************************************)
PairInit ==
    /\ Constructed
    /\ bpas \in [1..2 -> ValidBOEs] \cup {<<m1Example, m2Example>>}
    /\ calls = <<>>
    /\ result = EmptyDict
    /\ analyzer = None
    /\ manager = None
    /\ calculator = None
    /\ menu = None
    /\ args = <<>>

\* compute_criterion_boe of a newly registered expert E1
ComputeCriterionBoe ==
    /\ \E info \in ExpertInfos, criterion \in Range(criteria) :
          LET r == compute_criterion_boe(
                       add_expert(ExpertManager, "E1", info.weight, info.cpvs,
                                  info.preferences).self,
                       "E1", criterion)
          IN /\ manager' = r.self
             /\ result' = r.ret
             /\ args' = <<info, criterion>>
    /\ calls' = Append(calls, "compute_criterion_boe")
    /\ UNCHANGED <<rules_vars, bpas, analyzer, calculator, menu>>

\* adjust_boe_with_importance of E1, whose individual BOE is bpas[1], beside
\* an expert E2 of weight 1
DiscountBoe ==
    /\ \E weight \in Weights :
          LET registered ==
                  [ExpertManager EXCEPT
                      !.experts = << <<"E1", RegisteredInfo(weight)>>,
                                     <<"E2", RegisteredInfo(ROne)>> >>,
                      !.expert_weights = << <<"E1", weight>>, <<"E2", ROne>> >>,
                      !.individual_boes = << <<"E1", bpas[1]>>, <<"E2", bpas[2]>> >>]
              r == adjust_boe_with_importance(
                       calculate_discount_rates(registered).self, "E1")
          IN /\ manager' = r.self
             /\ result' = r.ret
             /\ args' = <<weight>>
    /\ calls' = Append(calls, "adjust_boe_with_importance")
    /\ UNCHANGED <<rules_vars, bpas, analyzer, calculator, menu>>

PairNext ==
    \/ Fresh /\ DempsterCombine
    \/ Fresh /\ YagerCombine
    \/ Fresh /\ AdaptiveCombine
    \/ Fresh /\ ComputeCriterionBoe
    \/ Fresh /\ DiscountBoe

SpecPair == PairInit /\ [][PairNext]_vars

(***************************************************************************)
(* Menu: the interactive menu holds an analyzer and the name of the file   *)
(* it was loaded from.  A file is given by what parse_gdm_xml makes of it. *)
(***************************************************************************)
\* the files that exist: two with experts that can be registered, one whose
\* only expert breaks the partition rule, one that is no GDM XML document
XmlFiles == {"good.xml", "other.xml", "invalid.xml", "broken.xml"}

\* GDMXMLParser.parse_gdm_xml: data['experts'] of the file, None for a
\* missing file or a document of the wrong format
parse_gdm_xml(file_path) ==
    IF file_path = "good.xml" THEN << <<"E1", RerunE1>>, <<"E2", RerunE2>> >>
    ELSE IF file_path = "other.xml" THEN << <<"E1", RerunE2>> >>
    ELSE IF file_path = "invalid.xml"
    THEN << <<"E1", [weight |-> ROne, cpvs |-> HalfCpvs, preferences |-> MissingB]>> >>
    ELSE None

\* GDMAnalyzer.load_data_from_xml
load_data_from_xml(self, xml_file_path) ==
    IF IsNone(parse_gdm_xml(xml_file_path))
    THEN [self |-> self, ret |-> FALSE]
    ELSE load_data_manually(self, parse_gdm_xml(xml_file_path))

\* Menu.__init__
Menu == [analyzer |-> None, current_file |-> NoneName]

\* Menu.load_data_from_xml after the analyzer's load returned r
AfterLoad(self, file_path, r) ==
    IF r.ret
    THEN [self |-> [analyzer |-> r.self, current_file |-> file_path], ret |-> TRUE]
    ELSE [self |-> [self EXCEPT !.analyzer = r.self], ret |-> FALSE]

\* Menu.load_data_from_xml: one file path is entered, and after a failure
\* the question to try again is answered with no
Menu_load_data_from_xml(self, file_path) ==
    IF file_path \notin XmlFiles
    THEN [self |-> self, ret |-> FALSE]
    ELSE AfterLoad(self, file_path,
                   load_data_from_xml(GDMAnalyzer(NoneName, None), file_path))

\* Menu.settings_menu: one setting is changed (1 the rule, 2 the pessimism
\* coefficient, 3 the threshold of the adaptive rule), then back
\* the menu after a call r on its analyzer
WithAnalyzer(self, r) == [self |-> [self EXCEPT !.analyzer = r.self], ret |-> r.ret]

Menu_settings_menu(self, choice, value) ==
    IF IsNone(self.analyzer) THEN [self |-> self, ret |-> FALSE]
    ELSE WithAnalyzer(self,
             IF choice = "1" THEN set_combination_rule(self.analyzer, value)
             ELSE IF choice = "2" THEN set_pessimism_coefficient(self.analyzer, value)
             ELSE IF self.analyzer.combination_rule = "adaptive"
             THEN GDMAnalyzer_set_conflict_threshold(self.analyzer, value)
             ELSE [self |-> self.analyzer, ret |-> FALSE])

\* Menu.run_analysis
Menu_run_analysis(self, use_adjusted_boe) ==
    IF IsNone(self.analyzer) THEN [self |-> self, ret |-> NoneName]
    ELSE WithAnalyzer(self, run_analysis(self.analyzer, use_adjusted_boe))

\* what is entered in the settings menu
SettingArgs ==
    {<<"1", "yager">>, <<"1", "adaptive">>, <<"2", RZero>>, <<"2", <<3, 2>> >>,
     <<"3", ROne>>}

MenuInit ==
    /\ menu = Menu
    /\ analyzer = None
    /\ manager = None
    /\ calculator = None
    /\ args = <<>>
    /\ calls = <<>>
    /\ result = FALSE
    /\ bpas = <<>>
    /\ conflict_threshold = DEFAULT_CONFLICT_THRESHOLD
    /\ conflict_history = <<>>
    /\ step_decisions = <<>>

MenuLoadDataFromXml ==
    /\ Len(calls) <= MaxCalls + 1
    /\ \E file_path \in XmlFiles \cup {"missing.xml"} :
          LET r == Menu_load_data_from_xml(menu, file_path)
          IN /\ menu' = r.self
             /\ result' = r.ret
             /\ args' = <<file_path>>
    /\ calls' = Append(calls, "load_data_from_xml")
    /\ UNCHANGED <<rules_vars, analyzer, manager, calculator>>

MenuSettings ==
    /\ Len(calls) <= MaxCalls + 1
    /\ \E setting \in SettingArgs :
          LET r == Menu_settings_menu(menu, setting[1], setting[2])
          IN /\ menu' = r.self
             /\ result' = r.ret
             /\ args' = setting
    /\ calls' = Append(calls, "settings_menu")
    /\ UNCHANGED <<rules_vars, analyzer, manager, calculator>>

MenuRunAnalysis ==
    /\ Len(calls) <= MaxCalls + 1
    /\ \E use_adjusted_boe \in BOOLEAN :
          LET r == Menu_run_analysis(menu, use_adjusted_boe)
          IN /\ menu' = r.self
             /\ result' = (r.ret # NoneName)
             /\ args' = <<use_adjusted_boe>>
    /\ calls' = Append(calls, "run_analysis")
    /\ UNCHANGED <<rules_vars, analyzer, manager, calculator>>

MenuNext ==
    \/ MenuLoadDataFromXml
    \/ MenuSettings
    \/ MenuRunAnalysis

SpecMenu == MenuInit /\ [][MenuNext]_vars

(***************************************************************************)
(* SpecRank: a BeliefPlausibilityCalculator is given a group BOE and the   *)
(* alternatives, and then ranks them, possibly several times.              *)
(***************************************************************************)
\* the alternatives as the caller lists them
AlternativeOrders == {<<"A", "B">>, <<"B", "A">>}

\* pessimism coefficients: 0, 1/4, 1/2 and 1
Gammas == {RZero, <<1, 4>>, <<1, 2>>, ROne}

RankInit ==
    /\ calculator = BeliefPlausibilityCalculator
    /\ analyzer = None
    /\ manager = None
    /\ menu = None
    /\ args = <<>>
    /\ calls = <<>>
    /\ result = EmptyDict
    /\ bpas = <<>>
    /\ conflict_threshold = DEFAULT_CONFLICT_THRESHOLD
    /\ conflict_history = <<>>
    /\ step_decisions = <<>>

CalculateBeliefPlausibility ==
    /\ calls = <<>>
    /\ \E combined_beliefs \in ValidBOEs, all_alternatives_arg \in AlternativeOrders :
          LET r == calculate_belief_plausibility(calculator, combined_beliefs,
                                                 all_alternatives_arg)
          IN /\ calculator' = r.self
             /\ result' = r.ret
             /\ args' = <<combined_beliefs, all_alternatives_arg>>
    /\ calls' = Append(calls, "calculate_belief_plausibility")
    /\ UNCHANGED <<rules_vars, analyzer, manager, menu>>

FindOptimalAlternative ==
    /\ Len(calls) \in 1..MaxCalls
    /\ \E pessimism_coef \in Gammas \cup {None} :
          LET r == find_optimal_alternative(calculator, pessimism_coef)
          IN /\ calculator' = r.self
             /\ result' = r.ret
             /\ args' = <<args[1], args[2], pessimism_coef>>
    /\ calls' = Append(calls, "find_optimal_alternative")
    /\ UNCHANGED <<rules_vars, analyzer, manager, menu>>

RankAlternatives ==
    /\ Len(calls) \in 1..MaxCalls
    /\ \E pessimism_coef \in Gammas :
          LET r == rank_alternatives(calculator, pessimism_coef)
          IN /\ calculator' = r.self
             /\ result' = r.ret
             /\ args' = <<args[1], args[2], pessimism_coef>>
    /\ calls' = Append(calls, "rank_alternatives")
    /\ UNCHANGED <<rules_vars, analyzer, manager, menu>>

RankNext ==
    \/ CalculateBeliefPlausibility
    \/ FindOptimalAlternative
    \/ RankAlternatives

SpecRank == RankInit /\ [][RankNext]_vars

(***************************************************************************)
(* Reference quantities of the claims, computed from the definitions of    *)
(* evidence theory and not from the code's loops.                          *)
(***************************************************************************)
\* sum of m1(B) * m2(C) over the pairs (B, C) with B ∩ C = A
PairMass(m1, m2, A) ==
    LET P == (DOMAIN m1) \X (DOMAIN m2)
    IN SumOver([p \in P |-> IF p[1] \cap p[2] = A
                            THEN RMul(m1[p[1]], m2[p[2]]) ELSE RZero], P)

\* the conflict coefficient K(m1, m2)
ConflictK(m1, m2) == PairMass(m1, m2, {})

\* two dicts that give every subset of the universe the same mass
SameMasses(x, y) == \A A \in SUBSET all_alternatives : MassOf(x, A) = MassOf(y, A)

\* the two arguments of a pairwise call
Arg1 == bpas[1]
Arg2 == bpas[2]

(***************************************************************************)
(* C1  Conservation: dempster_combine with K < 1, and yager_combine for    *)
(* any K, return masses that sum to 1.                                     *)
(***************************************************************************)
C1_Conservation ==
    /\ (last_call = "dempster_combine" /\ RLt(ConflictK(Arg1, Arg2), ROne))
          => TotalMass(result) = ROne
    /\ last_call = "yager_combine" => TotalMass(result) = ROne

\* dempster_combine has normalized away a conflict strictly between 0 and 1
C1_Witness ==
    /\ last_call = "dempster_combine"
    /\ RLt(RZero, ConflictK(Arg1, Arg2))
    /\ RLt(ConflictK(Arg1, Arg2), ROne)
    /\ Cardinality(DOMAIN result) >= 2
    /\ TotalMass(result) = ROne

(***************************************************************************)
(* C2  dempster_combine with K < 1 gives every non-empty set A the mass    *)
(* (sum of m1(B)*m2(C) over B ∩ C = A) / (1 - K); on the worked example it *)
(* returns {A}: 3/7, {B}: 2/7, Θ: 2/7.                                     *)
(***************************************************************************)
DempsterExampleResult ==
    ({"A"} :> <<3, 7>>) @@ ({"B"} :> <<2, 7>>) @@ (universal_set :> <<2, 7>>)

C2_DempsterFormula ==
    (last_call = "dempster_combine" /\ RLt(ConflictK(Arg1, Arg2), ROne)) =>
        /\ \A A \in FocalElements :
              MassOf(result, A) =
                  RDiv(PairMass(Arg1, Arg2, A), RSub(ROne, ConflictK(Arg1, Arg2)))
        /\ MassOf(result, {}) = RZero
        /\ (Arg1 = m1Example /\ Arg2 = m2Example) => result = DempsterExampleResult

C2_Witness ==
    /\ last_call = "dempster_combine"
    /\ Arg1 = m1Example /\ Arg2 = m2Example
    /\ result = DempsterExampleResult

(***************************************************************************)
(* C3  yager_combine gives every non-empty set A other than Θ the          *)
(* unnormalized mass sum of m1(B)*m2(C) over B ∩ C = A, and gives Θ that   *)
(* sum plus the conflict K; on the worked example it returns               *)
(* {A}: 0.30, {B}: 0.20, Θ: 0.50.                                          *)
(***************************************************************************)
YagerExampleResult ==
    ({"A"} :> <<3, 10>>) @@ ({"B"} :> <<1, 5>>) @@ (universal_set :> <<1, 2>>)

C3_YagerFormula ==
    last_call = "yager_combine" =>
        /\ \A A \in FocalElements \ {universal_set} :
              MassOf(result, A) = PairMass(Arg1, Arg2, A)
        /\ MassOf(result, universal_set) =
              RAdd(PairMass(Arg1, Arg2, universal_set), ConflictK(Arg1, Arg2))
        /\ (Arg1 = m1Example /\ Arg2 = m2Example) => result = YagerExampleResult

C3_Witness ==
    /\ last_call = "yager_combine"
    /\ Arg1 = m1Example /\ Arg2 = m2Example
    /\ result = YagerExampleResult

(***************************************************************************)
(* C4  Full-conflict fallback: when every focal element of m1 is disjoint  *)
(* from every focal element of m2, dempster_combine returns exactly        *)
(* {Θ: 1.0}: it does not divide by 1 - K = 0.                              *)
(***************************************************************************)
AllDisjoint(m1, m2) == \A B \in DOMAIN m1 : \A C \in DOMAIN m2 : B \cap C = {}

C4_FullConflictFallback ==
    (last_call = "dempster_combine" /\ AllDisjoint(Arg1, Arg2)) =>
        /\ result = TotalIgnorance
        /\ \A f \in DOMAIN result : result[f][2] # 0

C4_Witness ==
    /\ last_call = "dempster_combine"
    /\ Arg1 = [f \in {{"A"}} |-> ROne]
    /\ Arg2 = [f \in {{"B"}} |-> ROne]
    /\ result = TotalIgnorance

\* a fresh combiner, on which the formulas evaluate the rules for comparison
NewCombiner == CombinationRules(conflict_threshold)

DempsterOf(m1, m2) == dempster_combine(NewCombiner, m1, m2).ret
YagerOf(m1, m2) == yager_combine(NewCombiner, m1, m2).ret

AllOrderings ==
    [n \in 0..MaxSources |->
        { p \in [1..n -> 1..n] : \A i, j \in 1..n : p[i] = p[j] => i = j }]

Orderings(n) == AllOrderings[n]

Permuted(seq, p) == [i \in 1..Len(seq) |-> seq[p[i]]]

\* No step of a Dempster fold r of n BOEs on a fresh combiner met full conflict:
\* every step but a full-conflict one appends its K to conflict_history.
NoFullConflict(r, n) ==
    /\ Len(r.self.conflict_history) = n - 1
    /\ \A i \in 1..(n - 1) : r.self.conflict_history[i] # ROne

C6_DempsterOrderIndependent ==
    (last_call = "dempster_combine_multiple" /\ Len(bpas) >= 2) =>
        LET n == Len(bpas)
        IN NoFullConflict(dempster_combine_multiple(NewCombiner, bpas), n) =>
              \A p \in Orderings(n) :
                  LET r == dempster_combine_multiple(NewCombiner, Permuted(bpas, p))
                  IN NoFullConflict(r, n) => r.ret = result

\* three different BOEs folded with conflict at both steps, none of it full
C6_Witness ==
    /\ last_call = "dempster_combine_multiple"
    /\ Len(bpas) = 3
    /\ bpas[1] # bpas[2] /\ bpas[2] # bpas[3] /\ bpas[1] # bpas[3]
    /\ Len(conflict_history) = 2
    /\ \A i \in 1..2 : RLt(RZero, conflict_history[i])
    /\ Cardinality(DOMAIN result) >= 2

(***************************************************************************)
(* C7  Yager's rule.  As stated: commutative and associative, so           *)
(* yager_combine_multiple returns the same BOE for every ordering of its   *)
(* inputs.                                                                 *)
(***************************************************************************)
C7_YagerOrderIndependent ==
    (last_call = "yager_combine_multiple" /\ Len(bpas) >= 2) =>
        \A p \in Orderings(Len(bpas)) :
            SameMasses(yager_combine_multiple(NewCombiner, Permuted(bpas, p)).ret, result)

(***************************************************************************)
(* C7 as amended: Yager's rule is commutative, yager_combine(a, b) =       *)
(* yager_combine(b, a), so yager_combine_multiple is order-independent for *)
(* two inputs; it is not associative, and with three or more inputs the    *)
(* result depends on their order.                                          *)
(***************************************************************************)
C7_YagerCommutative ==
    /\ last_call = "yager_combine" => result = YagerOf(Arg2, Arg1)
    /\ (last_call = "yager_combine_multiple" /\ Len(bpas) = 2) =>
          result = yager_combine_multiple(NewCombiner, <<bpas[2], bpas[1]>>).ret

\* two different BOEs in conflict, combined by yager_combine
C7_Witness ==
    /\ last_call = "yager_combine"
    /\ Arg1 # Arg2
    /\ RLt(RZero, ConflictK(Arg1, Arg2))
    /\ Cardinality(DOMAIN result) >= 2
    /\ result = YagerOf(Arg2, Arg1)

(***************************************************************************)
(* C8  Adaptive rule selection: adaptive_combine returns exactly           *)
(* dempster_combine's result when K is strictly below the threshold, and   *)
(* exactly yager_combine's when K >= threshold.                            *)
(***************************************************************************)
C8_AdaptiveSelection ==
    last_call = "adaptive_combine" =>
        /\ RLt(ConflictK(Arg1, Arg2), conflict_threshold)
              => result = DempsterOf(Arg1, Arg2)
        /\ RLe(conflict_threshold, ConflictK(Arg1, Arg2))
              => result = YagerOf(Arg1, Arg2)

\* K equals the threshold: Yager's rule is taken, and Dempster's would differ
C8_Witness ==
    /\ last_call = "adaptive_combine"
    /\ ConflictK(Arg1, Arg2) = conflict_threshold
    /\ result = YagerOf(Arg1, Arg2)
    /\ result # DempsterOf(Arg1, Arg2)

(***************************************************************************)
(* C9  The adaptive rule is not associative: for b1 = b2 = {{A}: 0.5,      *)
(* {B}: 0.5}, b3 = {{A}: 0.5, Θ: 0.5} and the default threshold 0.4, the   *)
(* fold (b1 ∘ b2) ∘ b3 and the fold (b2 ∘ b3) ∘ b1 take different base     *)
(* rules at a step and return BOEs with different masses.                  *)
(***************************************************************************)
b1Example == ({"A"} :> <<1, 2>>) @@ ({"B"} :> <<1, 2>>)
b2Example == b1Example
b3Example == ({"A"} :> <<1, 2>>) @@ (universal_set :> <<1, 2>>)

UsedRules(decisions) == [i \in 1..Len(decisions) |-> decisions[i].used_rule]

C9_AdaptiveNotAssociative ==
    (/\ last_call = "adaptive_combine_multiple"
     /\ bpas = <<b1Example, b2Example, b3Example>>
     /\ conflict_threshold = DEFAULT_CONFLICT_THRESHOLD) =>
        LET other == adaptive_combine_multiple(NewCombiner,
                                               <<b2Example, b3Example, b1Example>>)
        IN /\ ~SameMasses(other.ret, result)
           /\ UsedRules(other.self.step_decisions) # UsedRules(step_decisions)

C9_Witness ==
    /\ last_call = "adaptive_combine_multiple"
    /\ bpas = <<b1Example, b2Example, b3Example>>
    /\ conflict_threshold = DEFAULT_CONFLICT_THRESHOLD
    /\ UsedRules(step_decisions) = <<"Yager", "Dempster">>
    /\ result = ({"A"} :> <<4, 7>>) @@ ({"B"} :> <<1, 7>>) @@ (universal_set :> <<2, 7>>)

(***************************************************************************)
(* C10  Adaptive diagnostics: after adaptive_combine_multiple over N >= 2  *)
(* BOEs, step_decisions holds exactly N - 1 records with step indices      *)
(* 1..N-1; record i carries the conflict between the running result and    *)
(* source i + 1, the configured threshold and the base rule that produced  *)
(* the step's result (Dempster iff conflict < threshold); records of       *)
(* earlier calls are gone.                                                 *)
(***************************************************************************)
\* the running result before source i is folded in, replayed with the rules
\* that step_decisions recorded
RECURSIVE RunningResult(_)
RunningResult(i) ==
    IF i = 1 THEN bpas[1]
    ELSE IF step_decisions[i - 1].used_rule = "Dempster"
         THEN DempsterOf(RunningResult(i - 1), bpas[i])
         ELSE YagerOf(RunningResult(i - 1), bpas[i])

C10_AdaptiveDiagnostics ==
    (last_call = "adaptive_combine_multiple" /\ Len(bpas) >= 2) =>
        /\ Len(step_decisions) = Len(bpas) - 1
        /\ \A i \in 1..(Len(bpas) - 1) :
              LET d == step_decisions[i]
              IN /\ d.step = i
                 /\ d.conflict = ConflictK(RunningResult(i), bpas[i + 1])
                 /\ d.threshold = conflict_threshold
                 /\ d.used_rule \in {"Dempster", "Yager"}
                 /\ d.used_rule = "Dempster" <=> RLt(d.conflict, d.threshold)
        /\ result = RunningResult(Len(bpas))

\* an adaptive call had left its records on the object before this call, and
\* the two steps of this call took different rules
C10_Witness ==
    /\ Len(calls) >= 2
    /\ calls[Len(calls) - 1] \in {"adaptive_combine", "adaptive_combine_multiple"}
    /\ last_call = "adaptive_combine_multiple"
    /\ Len(bpas) = 3
    /\ Len(step_decisions) = 2
    /\ step_decisions[1].used_rule # step_decisions[2].used_rule

(***************************************************************************)
(* C11  Each *_combine_multiple on b1..bN with N >= 2 returns              *)
(* rule(...rule(rule(b1, b2), b3)..., bN), the strict left fold in the     *)
(* order of the arguments, and with N = 1 returns b1 unchanged.            *)
(***************************************************************************)
\* the pairwise rule a multi-source operation folds with
PairwiseRule(name, m1, m2) ==
    CASE name = "dempster_combine_multiple" -> dempster_combine(NewCombiner, m1, m2).ret
      [] name = "yager_combine_multiple"    -> yager_combine(NewCombiner, m1, m2).ret
      [] name = "adaptive_combine_multiple" -> adaptive_combine(NewCombiner, m1, m2).ret

\* rule(...rule(rule(b1, b2), b3)..., bN), written by its definition:
\* the fold of b1..bN is the rule applied to the fold of b1..bN-1 and bN
RECURSIVE LeftFoldOf(_, _)
LeftFoldOf(name, seq) ==
    IF Len(seq) = 1 THEN seq[1]
    ELSE PairwiseRule(name, LeftFoldOf(name, SubSeq(seq, 1, Len(seq) - 1)), seq[Len(seq)])

MultipleCalls ==
    {"dempster_combine_multiple", "yager_combine_multiple", "adaptive_combine_multiple"}

C11_LeftFold ==
    (last_call \in MultipleCalls /\ Len(bpas) >= 1) =>
        /\ Len(bpas) = 1 => result = bpas[1]
        /\ Len(bpas) >= 2 => result = LeftFoldOf(last_call, bpas)

\* three sources folded by Yager's rule, where folding from the right
\* would have given other masses
C11_Witness ==
    /\ last_call = "yager_combine_multiple"
    /\ Len(bpas) = 3
    /\ result = YagerOf(YagerOf(bpas[1], bpas[2]), bpas[3])
    /\ ~SameMasses(result, YagerOf(bpas[1], YagerOf(bpas[2], bpas[3])))

(***************************************************************************)
(* The analyzer's ExpertManager and the input the claims about a run read. *)
(***************************************************************************)
Loaded == ~IsNone(analyzer.expert_manager)
Manager == analyzer.expert_manager
Ran == last_call = "run_analysis"
use_adjusted_flag == args[1]

\* the BOEs compute_group_boe finds for the flag of the run
BoesToCombine ==
    IF use_adjusted_flag THEN Manager.adjusted_boes ELSE Manager.individual_boes

AllWeightsZero(m) ==
    /\ Len(m.expert_weights) >= 1
    /\ \A i \in 1..Len(m.expert_weights) : m.expert_weights[i][2] = RZero

(***************************************************************************)
(* C12  A multi-source combine of zero BOEs is an error: each              *)
(* *_combine_multiple with N = 0 returns no BOE (the empty mapping, its    *)
(* error outcome), and a run whose group fold has zero BOEs ends with no   *)
(* group BOE, no ranking and no optimal alternative.                       *)
(***************************************************************************)
C12_ZeroBOEsIsError ==
    /\ \A rule \in {"dempster", "yager", "adaptive"} :
          IsNone(CombineWith(rule, analyzer.conflict_threshold, <<>>))
    /\ (Ran /\ Len(BoesToCombine) = 0) =>
          /\ result = NoneName
          /\ IsNone(analyzer.group_boe)
          /\ IsNone(Manager.group_boe)
          /\ IsNone(analyzer.belief_calculator)
          /\ IsNone(analyzer.results)

\* a run over two registered experts that had no BOE to fold
C12_Witness ==
    /\ Ran
    /\ Len(Manager.experts) = 2
    /\ Len(BoesToCombine) = 0
    /\ result = NoneName

(***************************************************************************)
(* C13  Mass Assignment Builder.  As stated: compute_criterion_boe returns *)
(* {Θ: 1.0} when the CPV is 0 or there is no group; otherwise, with d      *)
(* groups of ranks a_1..a_d, mass(group_i) = a_i*CPV / (sum_j a_j*CPV +    *)
(* sqrt(d)) for every group i, mass(Θ) = sqrt(d) / (sum_j a_j*CPV +        *)
(* sqrt(d)), and the masses sum to 1.                                      *)
(***************************************************************************)
\* the data of a registered expert and of one of its criteria, as loaded
InfoOf(name) == DictGet(analyzer.experts_data, name)
CpvOf(name, c) == DictGet(InfoOf(name).cpvs, c)
GroupsOf(name, c) == DictGet(InfoOf(name).preferences, c)
GroupSet(g) == Range(g[1])

\* sum_j a_j * CPV + sqrt(d)
BuilderDenominator(groups, cpv) ==
    RAdd(RMul(<<SumInts([i \in 1..Len(groups) |-> groups[i][2]], 1..Len(groups)), 1>>, cpv),
         math_sqrt(Len(groups)))

BuiltBoe(name, c) == compute_criterion_boe(Manager, name, c).ret

RegisteredNames == Range(DictKeys(Manager.experts))

C13_BuilderFormula ==
    Loaded =>
        \A name \in RegisteredNames : \A ci \in 1..Len(criteria) :
            LET c      == criteria[ci]
                cpv    == CpvOf(name, c)
                groups == GroupsOf(name, c)
                boe    == BuiltBoe(name, c)
            IN IF cpv = RZero \/ Len(groups) = 0
               THEN boe = TotalIgnorance
               ELSE /\ \A i \in 1..Len(groups) :
                          MassOf(boe, GroupSet(groups[i])) =
                              RDiv(RMul(<<groups[i][2], 1>>, cpv),
                                   BuilderDenominator(groups, cpv))
                    /\ MassOf(boe, universal_set) =
                           RDiv(math_sqrt(Len(groups)), BuilderDenominator(groups, cpv))
                    /\ TotalMass(boe) = ROne

(***************************************************************************)
(* C13 as amended: the formulas hold for every group other than Θ, and for *)
(* Θ when no group is Θ; a single group equal to Θ gives {Θ: 1.0}; the     *)
(* masses sum to 1 in every case, and the BOE is stored as returned.       *)
(***************************************************************************)
C13_BuilderFormulaOffTheta ==
    Loaded =>
        \A name \in RegisteredNames : \A ci \in 1..Len(criteria) :
            LET c      == criteria[ci]
                cpv    == CpvOf(name, c)
                groups == GroupsOf(name, c)
                boe    == BuiltBoe(name, c)
            IN IF cpv = RZero \/ Len(groups) = 0
               THEN boe = TotalIgnorance
               ELSE /\ \A i \in 1..Len(groups) :
                          GroupSet(groups[i]) # universal_set =>
                              MassOf(boe, GroupSet(groups[i])) =
                                  RDiv(RMul(<<groups[i][2], 1>>, cpv),
                                       BuilderDenominator(groups, cpv))
                    /\ IF \E i \in 1..Len(groups) : GroupSet(groups[i]) = universal_set
                       THEN boe = TotalIgnorance
                       ELSE MassOf(boe, universal_set) =
                                RDiv(math_sqrt(Len(groups)),
                                     BuilderDenominator(groups, cpv))
                    /\ TotalMass(boe) = ROne
                    /\ (Ran /\ DictHas(Manager.criterion_boes, name)) =>
                           DictGet(DictGet(Manager.criterion_boes, name), c) = boe

\* a run has built and stored the BOE of two ranked groups (three focal
\* elements) and the BOE of the single group Θ
C13_Witness ==
    /\ Ran
    /\ \E name \in RegisteredNames :
          /\ DictHas(Manager.criterion_boes, name)
          /\ CpvOf(name, "c1") # RZero
          /\ GroupsOf(name, "c1") = OneGroup
          /\ DictGet(DictGet(Manager.criterion_boes, name), "c1") = TotalIgnorance
          /\ DictHas(DictGet(Manager.criterion_boes, name), "c2")
          /\ Cardinality(DOMAIN DictGet(DictGet(Manager.criterion_boes, name), "c2")) = 3

(***************************************************************************)
(* The quantities of importance discounting, from their definitions.       *)
(***************************************************************************)
ManagerNames == Range(DictKeys(manager.experts))
WeightOf(name) == DictGet(manager.expert_weights, name)
RateOf(name) == DictGet(manager.discount_rates, name)
IndividualOf(name) == DictGet(manager.individual_boes, name)

\* max_j ω_j
MaxWeight ==
    CHOOSE m \in {WeightOf(name) : name \in ManagerNames} :
        \A name \in ManagerNames : RLe(WeightOf(name), m)

RatesComputed == Len(manager.discount_rates) > 0

(***************************************************************************)
(* C14  Discount rates.  As stated: after calculate_discount_rates over    *)
(* registered experts whose weights are not all zero, every expert k has   *)
(* rate ω_k / max_j ω_j, every rate lies in (0, 1], and at least one rate  *)
(* is exactly 1.                                                           *)
(***************************************************************************)
C14_RatesInHalfOpenInterval ==
    /\ (last_call = "calculate_discount_rates" /\ ~AllWeightsZero(manager)) =>
          /\ RatesComputed
          /\ result = manager.discount_rates
    /\ RatesComputed =>
          /\ \A name \in ManagerNames :
                /\ DictHas(manager.discount_rates, name)
                /\ RateOf(name) = RDiv(WeightOf(name), MaxWeight)
                /\ RLt(RZero, RateOf(name))
                /\ RLe(RateOf(name), ROne)
          /\ \E name \in ManagerNames : RateOf(name) = ROne

(***************************************************************************)
(* C14 as amended: every rate is ω_k / max_j ω_j and lies in [0, 1]; it is *)
(* 0 exactly for the experts of weight 0; at least one rate is exactly 1.  *)
(***************************************************************************)
C14_RatesInClosedInterval ==
    /\ (last_call = "calculate_discount_rates" /\ ~AllWeightsZero(manager)) =>
          /\ RatesComputed
          /\ result = manager.discount_rates
    /\ RatesComputed =>
          /\ DictKeys(manager.discount_rates) = DictKeys(manager.expert_weights)
          /\ \A name \in ManagerNames :
                /\ RateOf(name) = RDiv(WeightOf(name), MaxWeight)
                /\ RLe(RZero, RateOf(name))
                /\ RLe(RateOf(name), ROne)
                /\ RateOf(name) = RZero <=> WeightOf(name) = RZero
          /\ \E name \in ManagerNames : RateOf(name) = ROne

\* rates computed for an expert of weight 0 next to one of positive weight
C14_Witness ==
    /\ last_call = "calculate_discount_rates"
    /\ RatesComputed
    /\ \E name \in ManagerNames : WeightOf(name) = RZero /\ RateOf(name) = RZero
    /\ \E name \in ManagerNames : WeightOf(name) = <<1, 2>> /\ RateOf(name) = ROne

(***************************************************************************)
(* C15  Degenerate weights: when every registered weight is 0,             *)
(* calculate_discount_rates reports its error outcome (the empty mapping)  *)
(* and stores no rate, and a run with use_adjusted_boe = true then ends    *)
(* without a group BOE.                                                    *)
(***************************************************************************)
C15_AllZeroWeights ==
    (Loaded /\ AllWeightsZero(Manager)) =>
        /\ LET r == calculate_discount_rates(Manager)
           IN /\ IsNone(r.ret)
              /\ IsNone(r.self.discount_rates)
        /\ Ran =>
              /\ IsNone(Manager.discount_rates)
              /\ use_adjusted_flag =>
                    /\ result = NoneName
                    /\ IsNone(analyzer.group_boe)
                    /\ IsNone(Manager.group_boe)
                    /\ IsNone(analyzer.results)

\* a run with adjusted BOEs over two experts of weight 0 whose individual
\* BOEs were both computed
C15_Witness ==
    /\ Ran
    /\ use_adjusted_flag
    /\ Len(Manager.experts) = 2
    /\ AllWeightsZero(Manager)
    /\ Len(Manager.individual_boes) = 2
    /\ result = NoneName

(***************************************************************************)
(* C16  Importance discounting: for an expert with individual BOE m and    *)
(* discount rate ω*, with T = ω* * sum_{B # Θ} m(B) + m(Θ) > 0,            *)
(* adjust_boe_with_importance returns (and caches) m' with                 *)
(* m'(B) = ω* * m(B) / T for B # Θ and m'(Θ) = m(Θ) / T; m' sums to 1;     *)
(* and for ω* = 1 it is m itself.                                          *)
(***************************************************************************)
Adjusted == last_call = "adjust_boe_with_importance"
adjusted_expert == args[1]

\* T = ω* * sum_{B # Θ} m(B) + m(Θ)
DiscountTotal(m, rate) ==
    RAdd(RMul(rate, SumOver(m, (DOMAIN m) \ {universal_set})),
         MassOf(m, universal_set))

C16_Discounting ==
    (Adjusted /\ DictHas(manager.discount_rates, adjusted_expert)) =>
        LET m    == IndividualOf(adjusted_expert)
            rate == RateOf(adjusted_expert)
            T    == DiscountTotal(m, rate)
        IN /\ RLt(RZero, T) =>
                 /\ \A B \in FocalElements \ {universal_set} :
                       MassOf(result, B) = RDiv(RMul(rate, MassOf(m, B)), T)
                 /\ MassOf(result, universal_set) = RDiv(MassOf(m, universal_set), T)
                 /\ TotalMass(result) = ROne
                 /\ DictGet(manager.adjusted_boes, adjusted_expert) = result
           /\ rate = ROne => result = m

\* a BOE with mass on Θ and off Θ was discounted at the rate 1/2
C16_Witness ==
    /\ Adjusted
    /\ DictHas(manager.discount_rates, adjusted_expert)
    /\ RateOf(adjusted_expert) = <<1, 2>>
    /\ RLt(RZero, MassOf(IndividualOf(adjusted_expert), universal_set))
    /\ RLt(MassOf(IndividualOf(adjusted_expert), universal_set), ROne)
    /\ ~SameMasses(result, IndividualOf(adjusted_expert))

(***************************************************************************)
(* C17  Degenerate discounting: when the total after discounting is zero   *)
(* (rate 0 and no mass on Θ), adjust_boe_with_importance returns and       *)
(* caches {Θ: 1.0}.                                                        *)
(***************************************************************************)
C17_ZeroTotalIsIgnorance ==
    (/\ Adjusted
     /\ DictHas(manager.discount_rates, adjusted_expert)
     /\ DiscountTotal(IndividualOf(adjusted_expert), RateOf(adjusted_expert)) = RZero) =>
        /\ result = TotalIgnorance
        /\ DictHas(manager.adjusted_boes, adjusted_expert)
        /\ DictGet(manager.adjusted_boes, adjusted_expert) = TotalIgnorance

\* an expert of rate 0 whose individual BOE has no mass on Θ was adjusted
C17_Witness ==
    /\ Adjusted
    /\ DictHas(manager.discount_rates, adjusted_expert)
    /\ RateOf(adjusted_expert) = RZero
    /\ MassOf(IndividualOf(adjusted_expert), universal_set) = RZero
    /\ result = TotalIgnorance

(***************************************************************************)
(* C18  Group aggregation: the group BOE of a run is the left fold, with   *)
(* the chosen rule (and the threshold only when the rule is adaptive), of  *)
(* exactly one BOE per registered expert, in the order the experts were    *)
(* registered (the adjusted BOEs if use_adjusted_boe, else the individual  *)
(* ones); with use_adjusted_boe false it does not depend on the weights.   *)
(* Runs that C15 ends for want of discount rates are left aside.           *)
(***************************************************************************)
\* the same experts, every weight replaced by 1
RECURSIVE Reweighted(_)
Reweighted(experts_data) ==
    IF Len(experts_data) = 0 THEN <<>>
    ELSE <<<<experts_data[1][1], [experts_data[1][2] EXCEPT !.weight = ROne]>>>>
         \o Reweighted(Tail(experts_data))

GroupBoeWithUnitWeights ==
    run_analysis(load_data_manually(analyzer, Reweighted(analyzer.experts_data)).self,
                 FALSE).self.group_boe

C18_OneBOEPerExpert ==
    (/\ Ran
     /\ Len(Manager.experts) >= 1
     /\ use_adjusted_flag => ~AllWeightsZero(Manager)) =>
        /\ DictKeys(BoesToCombine) = DictKeys(Manager.experts)
        /\ analyzer.group_boe =
               CombineWith(analyzer.combination_rule, analyzer.conflict_threshold,
                           [i \in 1..Len(Manager.experts) |->
                               DictGet(BoesToCombine, Manager.experts[i][1])])
        /\ ~use_adjusted_flag => analyzer.group_boe = GroupBoeWithUnitWeights

(***************************************************************************)
(* C19  Belief <= Plausibility: for the group BOE of every run and every   *)
(* non-empty subset A of the alternatives, the stored Bel(A) and Pl(A) are *)
(* the sums of their definitions and 0 <= Bel(A) <= Pl(A) <= 1.            *)
(***************************************************************************)
\* Bel(A): the mass of the focal elements B with B ⊆ A
BeliefOf(m, A) ==
    SumOver([B \in DOMAIN m |-> IF B \subseteq A THEN m[B] ELSE RZero], DOMAIN m)

\* Pl(A) = 1 - Bel(complement of A) for masses that sum to 1; here by the
\* focal elements that meet A
PlausibilityOf(m, A) ==
    SumOver([B \in DOMAIN m |-> IF B \cap A # {} THEN m[B] ELSE RZero], DOMAIN m)

HasGroupBoe == Ran /\ ~IsNone(analyzer.group_boe)
Calculator == analyzer.belief_calculator

C19_BeliefBelowPlausibility ==
    HasGroupBoe =>
        \A A \in FocalElements :
            LET bel == Calculator.belief_functions[A]
                pl  == Calculator.plausibility_functions[A]
            IN /\ bel = BeliefOf(analyzer.group_boe, A)
               /\ pl = PlausibilityOf(analyzer.group_boe, A)
               /\ Calculator.intervals[A] = <<bel, pl>>
               /\ RLe(RZero, bel)
               /\ RLe(bel, pl)
               /\ RLe(pl, ROne)

\* a run whose group BOE gives an alternative 0 < Bel < Pl < 1
C19_Witness ==
    /\ HasGroupBoe
    /\ \E alt \in all_alternatives :
          /\ RLt(RZero, Calculator.belief_functions[{alt}])
          /\ RLt(Calculator.belief_functions[{alt}],
                 Calculator.plausibility_functions[{alt}])
          /\ RLt(Calculator.plausibility_functions[{alt}], ROne)

(***************************************************************************)
(* C20  Singleton-only scope: calculate_belief_plausibility stores Belief, *)
(* Plausibility and interval entries only for the singletons {alternative},*)
(* exactly one per alternative, and for no other subset.                   *)
(***************************************************************************)
Singletons == { {alt} : alt \in all_alternatives }

C20_SingletonsOnly ==
    HasGroupBoe =>
        /\ DOMAIN Calculator.belief_functions = Singletons
        /\ DOMAIN Calculator.plausibility_functions = Singletons
        /\ DOMAIN Calculator.intervals = Singletons

(***************************************************************************)
(* C21  Score: for every alternative and every pessimism coefficient γ in  *)
(* [0,1], rank_alternatives stores Score = γ·Belief + (1 - γ)·Plausibility *)
(* of the singleton; Score at γ = 1 is the Belief, at γ = 0 the            *)
(* Plausibility, Belief <= Score <= Plausibility, and Score does not grow  *)
(* with γ.                                                                 *)
(***************************************************************************)
Ranked_ == calls # <<>> /\ last_call \in {"rank_alternatives", "find_optimal_alternative"}

\* the γ the last ranking used
GammaUsed == IF IsNone(args[3]) THEN DEFAULT_PESSIMISM_COEFFICIENT ELSE args[3]

\* γ·Bel + (1 - γ)·Pl of the singleton, from the masses of the group BOE
ScoreOf(m, alt, gamma) ==
    RAdd(RMul(gamma, BeliefOf(m, {alt})),
         RMul(RSub(ROne, gamma), PlausibilityOf(m, {alt})))

C21_ScoreIsConvexCombination ==
    Ranked_ =>
        \A alt \in Range(args[2]) :
            /\ DictHas(calculator.scores, alt)
            /\ LET score == DictGet(calculator.scores, alt)
                   bel   == BeliefOf(args[1], {alt})
                   pl    == PlausibilityOf(args[1], {alt})
               IN /\ score = ScoreOf(args[1], alt, GammaUsed)
                  /\ RLe(bel, score)
                  /\ RLe(score, pl)
                  /\ (GammaUsed = ROne => score = bel)
                  /\ (GammaUsed = RZero => score = pl)
                  /\ \A gamma \in Gammas :
                        RLe(GammaUsed, gamma) =>
                            RLe(DictGet(rank_alternatives(calculator, gamma).self.scores,
                                        alt),
                                score)

\* a ranking with 0 < γ < 1 of an alternative whose Belief is below its
\* Plausibility: the Score lies strictly between the two
C21_Witness ==
    /\ Ranked_
    /\ last_call = "rank_alternatives"
    /\ \E alt \in Range(args[2]) :
          /\ RLt(RZero, GammaUsed)
          /\ RLt(GammaUsed, ROne)
          /\ RLt(BeliefOf(args[1], {alt}), DictGet(calculator.scores, alt))
          /\ RLt(DictGet(calculator.scores, alt), PlausibilityOf(args[1], {alt}))

(***************************************************************************)
(* C22  Ranking: the ranking lists every alternative exactly once with     *)
(* non-increasing scores, alternatives of equal score appear in the order  *)
(* of the alternative sequence supplied, the optimal alternative is the    *)
(* first entry, and ranking again with the same BOE and γ gives the same   *)
(* ordering.                                                               *)
(***************************************************************************)
\* the position of the alternative in the sequence
PositionIn(seq, alt) == CHOOSE i \in 1..Len(seq) : seq[i] = alt

C22_RankingOrder ==
    Ranked_ =>
        LET ranking == calculator.ranking
        IN /\ Len(ranking) = Len(args[2])
           /\ \A alt \in Range(args[2]) :
                 Cardinality({ i \in 1..Len(ranking) : ranking[i][1] = alt }) = 1
           /\ \A i \in 1..Len(ranking) :
                 ranking[i][2] = DictGet(calculator.scores, ranking[i][1])
           /\ \A i, j \in 1..Len(ranking) :
                 i < j =>
                    /\ RLe(ranking[j][2], ranking[i][2])
                    /\ (ranking[i][2] = ranking[j][2] =>
                           PositionIn(args[2], ranking[i][1])
                             < PositionIn(args[2], ranking[j][1]))
           /\ calculator.optimal_alternative = ranking[1][1]
           /\ rank_alternatives(calculator, GammaUsed).self.ranking = ranking

(***************************************************************************)
(* C23  Partition validation: add_expert rejects (returns False, registers *)
(* nothing, and no BOE is built for that expert) every expert who gives,   *)
(* for some criterion, preference groups in which an alternative is        *)
(* missing or stands in two groups.                                        *)
(***************************************************************************)
\* how often the alternative is named in the groups given for a criterion
Occurrences(groups, alt) ==
    Cardinality({ pos \in { <<g, i>> : g \in 1..Len(groups), i \in 1..2 } :
                    /\ pos[2] <= Len(groups[pos[1]][1])
                    /\ strip(groups[pos[1]][1][pos[2]]) = alt })

\* some criterion's groups miss an alternative or name it twice
BrokenPartition(preferences) ==
    \E c \in 1..Len(preferences) :
        \E alt \in all_alternatives : Occurrences(preferences[c][2], alt) # 1

\* the experts for whom a criterion BOE or an individual BOE is stored
ExpertsWithBoe(self) ==
    Range(DictKeys(self.criterion_boes)) \cup Range(DictKeys(self.individual_boes))

C23_BrokenPartitionRejected ==
    [][/\ (last_call' = "add_expert" /\ BrokenPartition(args'[2].preferences)) =>
             /\ result' = FALSE
             /\ manager' = manager
       /\ \A name \in ExpertsWithBoe(manager') :
             /\ DictHas(manager'.experts, name)
             /\ ~BrokenPartition(DictGet(manager'.experts, name).preferences)]_vars

\* E1 is registered and has its BOEs; then E2 is offered with a partition
\* in which an alternative is missing or stands twice, and is rejected
C23_Witness ==
    /\ calls = <<"add_expert", "add_expert">>
    /\ args[1] = "E2"
    /\ BrokenPartition(args[2].preferences)
    /\ \E alt \in all_alternatives : Occurrences(args[2].preferences[1][2], alt) = 2
    /\ result = FALSE
    /\ ManagerNames = {"E1"}

(***************************************************************************)
(* C24  Expert name validation: add_expert rejects an expert whose name is *)
(* empty or blank, and an expert whose name is that of an expert already   *)
(* registered; it returns False and leaves the registered experts, their   *)
(* weights and their data unchanged.                                       *)
(***************************************************************************)
EmptyOrBlank(name) == name = "" \/ name = " "

C24_EmptyOrDuplicateNameRejected ==
    [][(/\ last_call' = "add_expert"
        /\ EmptyOrBlank(args'[1]) \/ DictHas(manager.experts, args'[1])) =>
           /\ result' = FALSE
           /\ manager'.experts = manager.experts
           /\ manager'.expert_weights = manager.expert_weights]_vars

(***************************************************************************)
(* C25  Structural validation errors are fatal and precede computation: if *)
(* the data of any supplied expert breaks a structural rule (partition not *)
(* covering the alternatives once, CPV sum above 1 + tolerance, a CPV or   *)
(* the weight outside [0,1]), the load fails and the run is aborted: no    *)
(* criterion, individual or group BOE and no ranking is computed.          *)
(***************************************************************************)
OutsideUnitInterval(x) == RLt(x, RZero) \/ RLt(ROne, x)

BreaksStructuralRule(info) ==
    \/ BrokenPartition(info.preferences)
    \/ RLt(<<100001, 100000>>, SumSeq(DictValues(info.cpvs), 1))
    \/ \E i \in 1..Len(info.cpvs) : OutsideUnitInterval(info.cpvs[i][2])
    \/ OutsideUnitInterval(info.weight)

SomeExpertBreaksRule ==
    \E i \in 1..Len(analyzer.experts_data) :
        BreaksStructuralRule(analyzer.experts_data[i][2])

C25_ValidationErrorsAreFatal ==
    SomeExpertBreaksRule =>
        /\ last_call = "load_data_manually" => result = FALSE
        /\ Ran =>
              /\ result = NoneName
              /\ Manager.criterion_boes = EmptyDict
              /\ Manager.individual_boes = EmptyDict
              /\ Manager.adjusted_boes = EmptyDict
              /\ IsNone(analyzer.group_boe)
              /\ IsNone(analyzer.belief_calculator)
              /\ IsNone(analyzer.results)

(***************************************************************************)
(* C26  No state persists across runs: for an analyzer with loaded data,   *)
(* the group BOE, scores, ranking and optimal alternative of a run depend  *)
(* only on the loaded data and on the rule, threshold, γ and use_adjusted  *)
(* flag in force; a run after any earlier runs and settings gives what the *)
(* same run gives first on a freshly loaded analyzer.                      *)
(***************************************************************************)
\* a new analyzer with the settings in force, loaded with the same data
FreshlyLoaded ==
    load_data_manually(
        [GDMAnalyzer(NoneName, None) EXCEPT
            !.combination_rule = analyzer.combination_rule,
            !.pessimism_coefficient = analyzer.pessimism_coefficient,
            !.conflict_threshold = analyzer.conflict_threshold],
        analyzer.experts_data).self

SameResults(fresh) ==
    /\ result = fresh.ret
    /\ analyzer.group_boe = fresh.self.group_boe
    /\ analyzer.results = fresh.self.results
    /\ analyzer.belief_calculator = fresh.self.belief_calculator
    /\ Manager.individual_boes = fresh.self.expert_manager.individual_boes
    /\ Manager.adjusted_boes = fresh.self.expert_manager.adjusted_boes

C27_EveryExpertHasBoes ==
    (Ran /\ Len(Manager.discount_rates) > 0) =>
        /\ \A name \in RegisteredNames :
              /\ DictHas(Manager.individual_boes, name)
              /\ DictHas(Manager.adjusted_boes, name)
        /\ Len(BoesToCombine) = Cardinality(RegisteredNames)

(***************************************************************************)
(* C28  The empty set is never a focal element with positive mass: no BOE  *)
(* produced by the builder, by dempster_combine, yager_combine or          *)
(* adaptive_combine, or by discounting, from BOEs whose focal elements are *)
(* non-empty, gives a mass above 0 to the empty set.                       *)
(***************************************************************************)
NoMassOnEmptySet(boe) ==
    \A focal \in DOMAIN boe : focal = {} => ~RLt(RZero, boe[focal])

C28_EmptySetHasNoMass ==
    /\ \A i \in 1..Len(bpas) : {} \notin DOMAIN bpas[i]
    /\ ~Fresh => NoMassOnEmptySet(result)

\* a Yager combination of two BOEs in conflict: the products of the
\* disjoint focal elements went to Θ
C28_Witness ==
    /\ last_call = "yager_combine"
    /\ RLt(RZero, calculate_conflict(bpas[1], bpas[2]))
    /\ universal_set \notin DOMAIN bpas[1]
    /\ universal_set \notin DOMAIN bpas[2]
    /\ result[universal_set] = calculate_conflict(bpas[1], bpas[2])
    /\ {} \notin DOMAIN result

(***************************************************************************)
(* C29  With the conflict threshold 1 the adaptive rule coincides with     *)
(* Dempster's rule: adaptive_combine(m1, m2) = dempster_combine(m1, m2)    *)
(* for all valid m1, m2, also under full conflict K = 1, where the         *)
(* adaptive rule takes the Yager branch and Dempster's rule its fallback,  *)
(* both giving {Θ: 1.0}.                                                   *)
(***************************************************************************)
C29_AdaptiveAtOneIsDempster ==
    (last_call = "adaptive_combine" /\ conflict_threshold = MAX_CONFLICT_THRESHOLD) =>
        /\ result = dempster_combine(CombinationRules(MAX_CONFLICT_THRESHOLD),
                                     bpas[1], bpas[2]).ret
        /\ calculate_conflict(bpas[1], bpas[2]) = ROne =>
              /\ step_decisions[Len(step_decisions)].used_rule = "Yager"
              /\ result = TotalIgnorance

\* the adaptive rule with threshold 1 on two BOEs in full conflict
C29_Witness ==
    /\ last_call = "adaptive_combine"
    /\ conflict_threshold = MAX_CONFLICT_THRESHOLD
    /\ calculate_conflict(bpas[1], bpas[2]) = ROne
    /\ step_decisions[Len(step_decisions)].used_rule = "Yager"
    /\ result = TotalIgnorance

(***************************************************************************)
(* C30  In the menu a failed data load leaves the analyzer loaded before   *)
(* (its data, rule, threshold and γ) and current_file unchanged; so an     *)
(* analyzer held by the menu, on which settings and run-analysis are       *)
(* permitted, always holds successfully loaded expert data.                *)
(***************************************************************************)
HoldsLoadedData(a) ==
    /\ ~IsNone(a.expert_manager)
    /\ Len(a.expert_manager.experts) > 0

C30_FailedLoadChangesNothing ==
    [][/\ (last_call' = "load_data_from_xml" /\ result' = FALSE) =>
             /\ menu'.analyzer = menu.analyzer
             /\ menu'.current_file = menu.current_file
       /\ ~IsNone(menu'.analyzer) => HoldsLoadedData(menu'.analyzer)]_vars

=============================================================================
